---- MODULE Spec2Model ----
(***************************************************************************)
(* dev-recap: repository discovery (git/scanner.rs), the commit walker     *)
(* (git/parser.rs), reference and remote-URL parsing (git/github.rs), the  *)
(* statistics fold (git/mod.rs) and repository assembly (orchestrator.rs). *)
(*                                                                         *)
(* Strings are sequences of one-character strings, so that substring,      *)
(* prefix and case conversions are computed and not assumed.               *)
(***************************************************************************)
EXTENDS Integers, Sequences, FiniteSets, TLC

VARIABLES
    \* --- the directory tree handed to Scanner::scan, and the Scanner ---
    dirs,              \* directories below (and including) the scan root, as paths relative to it
    gitKind,           \* per directory: its ".git" entry ("none", "dir", "bad")
    unreadable,        \* directories on which fs::read_dir fails
    exclude_patterns,  \* Scanner.exclude_patterns
    max_depth,         \* Scanner.max_depth: {} is None, {n} is Some(n)
    scan_pc,           \* "idle" before Scanner::scan, "done" after it returned Ok, "failed" after Err
    repos,             \* the Vec<PathBuf> returned by scan
    visited            \* the paths scan_recursive was called on, in call order

scanVars == <<dirs, gitKind, unreadable, exclude_patterns, max_depth, scan_pc, repos, visited>>

VARIABLES
    \* --- one repository on disk, the Parser and the clock ---
    repo_valid,        \* Git2Repository::open(repo_path) succeeds
    odb,               \* the commit objects, odb[i] made before odb[i+1]; HEAD is the last one
    author_email,      \* Parser.author_email: {} is None, {s} is Some(s)
    timespan,          \* Parser.timespan, [start, end]
    now,               \* Utc::now()
    walk_pc,           \* "idle", "parsed" (parse_commits returned), "analyzed" (analyze_repository returned)
    parsed,            \* the Result<Vec<Commit>> of Parser::parse_commits
    analysis,          \* the Result<Repository> of Orchestrator::analyze_repository
    walks              \* the results of the calls of parse_commits made one after the other on this repository

walkVars == <<repo_valid, odb, author_email, timespan, now, walk_pc, parsed, analysis, walks>>

VARIABLES
    \* --- RepoStats::from_commits called on a commit list ---
    overflow_checks,   \* the build profile: TRUE panics on integer overflow (debug), FALSE wraps (release)
    stat_commits,      \* the &[Commit] argument
    stats_pc,          \* "idle", "done"
    stats_out          \* the RepoStats returned, or a panic

statsVars == <<overflow_checks, stat_commits, stats_pc, stats_out>>

VARIABLES
    \* --- extract_pr_numbers called on a commit message ---
    message,           \* the &str argument
    pr_pc,             \* "idle", "done"
    pr_numbers         \* the Vec<u32> returned

prVars == <<message, pr_pc, pr_numbers>>

VARIABLES
    \* --- parse_github_url called on a remote URL ---
    url_parts,         \* what the URL was put together from
    url,               \* the &str argument
    url_pc,            \* "idle", "done"
    github_info        \* the Option<GitHubRepo> returned: {} is None, {r} is Some(r)

urlVars == <<url_parts, url, url_pc, github_info>>

VARIABLES
    \* --- one run over a list of repositories: Orchestrator::analyze_repositories
    \* --- or the loop of run_analysis
    batch_caller,      \* "analyze_repositories", "run_analysis" or "run_analysis_dry" (cli.dry_run)
    repo_paths,        \* the paths handed to the loop
    batch_env,         \* per position: what parse_commits and the API give for that path
    batch_i,           \* the position the loop is at
    results,           \* the Vec<(Repository, Result<Summary>)> built so far
    batch_pc           \* "loop", "done" (the collection is complete), "panicked"

batchVars == <<batch_caller, repo_paths, batch_env, batch_i, results, batch_pc>>

VARIABLES
    \* --- Parser::split_message called on a commit message (the variable message)
    split_pc,          \* "idle", "done"
    split_out          \* the (String, Option<String>) returned: [summary, body], body {} for None

splitVars == <<split_pc, split_out>>

VARIABLES
    \* --- SummaryCache::generate_key called by its callers ---
    key_calls          \* the calls made so far: [repo_path, commit_hashes, key]

keyVars == <<key_calls>>

VARIABLES
    \* --- the SummaryCache of an Orchestrator, and generate_summary on it ---
    cache_db,          \* SummaryCache.db: key -> the bytes stored under it
    ttl_hours,         \* SummaryCache.ttl_hours
    stored,            \* history: key -> [summary, at] of the last set(key) that no clear followed
    cache_op,          \* the last operation on the cache and what it returned
    api_calls          \* how often the API was called by the last generate_summary

cacheVars == <<cache_db, ttl_hours, stored, cache_op, api_calls>>

VARIABLES
    \* --- Cli::validate called on the parsed command line ---
    cli,               \* the Cli struct: an Option is {} for None and {v} for Some(v)
    cli_pc,            \* "idle", "done"
    cli_out            \* the Result<(), String> of Cli::validate

cliVars == <<cli, cli_pc, cli_out>>

vars == <<scanVars, walkVars, statsVars, prVars, urlVars, batchVars, splitVars, keyVars, cacheVars, cliVars>>

----------------------------------------------------------------------------
(* Strings *)

\* str::contains: pat occurs in s as a contiguous substring (the empty pattern always does)
StrContains(s, pat) ==
    \E i \in 0..(Len(s) - Len(pat)) : SubSeq(s, i + 1, i + Len(pat)) = pat

\* str::starts_with
StartsWith(s, p) ==
    Len(p) <= Len(s) /\ SubSeq(s, 1, Len(p)) = p

\* the sequences over S of length at most n
SeqsUpTo(S, n) == UNION { [1..k -> S] : k \in 0..n }

RECURSIVE Concat(_)
\* the parts joined into one string
Concat(parts) == IF parts = << >> THEN << >> ELSE Head(parts) \o Concat(Tail(parts))

UpperLetters == <<"A","B","C","D","E","F","G","H","I","J","K","L","M",
                  "N","O","P","Q","R","S","T","U","V","W","X","Y","Z">>
LowerLetters == <<"a","b","c","d","e","f","g","h","i","j","k","l","m",
                  "n","o","p","q","r","s","t","u","v","w","x","y","z">>

LowerTable ==
    [c \in { UpperLetters[i] : i \in 1..26 } |->
        LowerLetters[CHOOSE i \in 1..26 : UpperLetters[i] = c]]

\* char::to_lowercase on the characters used here (ASCII)
LowerChar(c) == IF c \in DOMAIN LowerTable THEN LowerTable[c] ELSE c

\* str::to_lowercase
to_lowercase(s) == [i \in 1..Len(s) |-> LowerChar(s[i])]

----------------------------------------------------------------------------
(* The parts of the state a specification does not use stay as they are here *)

NoResult == [tag |-> "none"]

ScanIdle ==
    /\ dirs = {<<>>}
    /\ gitKind = [d \in {<<>>} |-> "none"]
    /\ unreadable = {}
    /\ exclude_patterns = {}
    /\ max_depth = {}
    /\ scan_pc = "idle"
    /\ repos = <<>>
    /\ visited = <<>>

WalkIdle ==
    /\ repo_valid = FALSE
    /\ odb = <<>>
    /\ author_email = {}
    /\ timespan = [start |-> 0, end |-> 0]
    /\ now = 0
    /\ walk_pc = "idle"
    /\ parsed = NoResult
    /\ analysis = NoResult
    /\ walks = << >>

StatsIdle ==
    /\ overflow_checks = FALSE
    /\ stat_commits = <<>>
    /\ stats_pc = "idle"
    /\ stats_out = NoResult

PrIdle ==
    /\ message = << >>
    /\ pr_pc = "idle"
    /\ pr_numbers = << >>

UrlIdle ==
    /\ url_parts = << >>
    /\ url = << >>
    /\ url_pc = "idle"
    /\ github_info = {}

BatchIdle ==
    /\ batch_caller = "analyze_repositories"
    /\ repo_paths = << >>
    /\ batch_env = << >>
    /\ batch_i = 1
    /\ results = << >>
    /\ batch_pc = "done"

SplitIdle ==
    /\ split_pc = "idle"
    /\ split_out = NoResult

KeyIdle ==
    /\ key_calls = << >>

CacheIdle ==
    /\ cache_db = << >>
    /\ ttl_hours = 0
    /\ stored = << >>
    /\ cache_op = NoResult
    /\ api_calls = 0

CliIdle ==
    /\ cli = << >>
    /\ cli_pc = "idle"
    /\ cli_out = NoResult

----------------------------------------------------------------------------
(* Directory scanner: src/git/scanner.rs *)

DotGit == <<".", "g", "i", "t">>

N_src == <<"s", "r", "c">>
N_out == <<"o", "u", "t">>
N_hidden == <<".", "h">>

\* the names a created directory can have
DirNames == {N_src, N_out, N_hidden}

\* the sub-directories git itself keeps inside a .git directory
GitInternalNames == {<<"r", "e", "f", "s">>}

\* what a directory holds under the name .git: nothing, a git directory that
\* opens, or a directory that is no git directory
GitKinds == {"none", "dir", "bad"}

\* the exclusion pattern lists tried (config.exclude_patterns)
PatternSets == { {}, {N_out}, {<<"u">>}, {DotGit} }

MaxDirs == 2
MaxScanDepth == 3

\* all trees with at most n directories below the root
RECURSIVE TreesUpTo(_)
TreesUpTo(n) ==
    IF n = 0 THEN { {<<>>} }
    ELSE LET T == TreesUpTo(n - 1)
         IN  T \cup UNION { { t \cup {Append(p, nm)} : p \in t, nm \in DirNames } : t \in T }

\* Option<u32> values of max_depth
DepthOptions == { {} } \cup { {n} : n \in 0..MaxScanDepth }

Parent(p) == SubSeq(p, 1, Len(p) - 1)
LastName(p) == p[Len(p)]

IsDotGitDir(p) == Len(p) > 0 /\ LastName(p) = DotGit
InsideDotGit(p) == \E i \in 1..Len(p) : p[i] = DotGit

\* git_path.exists() at scanner.rs:95-98
HasGitEntry(p) == p \in dirs /\ gitKind[p] # "none"

\* Git2Repository::open(path).is_ok() at scanner.rs:101
OpensAsRepository(p) == p \in dirs /\ gitKind[p] = "dir"

is_git_repository(p) ==
    IF ~HasGitEntry(p) THEN FALSE ELSE OpensAsRepository(p)

should_exclude_eq_only(name) ==
    \E pattern \in exclude_patterns : name = pattern

should_exclude(name) ==
    \E pattern \in exclude_patterns : name = pattern \/ StrContains(name, pattern)

\* the entries of fs::read_dir(path) that are directories (scanner.rs:56-67)
SubDirs(p) ==
    IF p \in dirs
    THEN { q \in dirs : Len(q) = Len(p) + 1 /\ Parent(q) = p }
         \cup (IF gitKind[p] \in {"dir", "bad"} THEN {Append(p, DotGit)} ELSE {})
    ELSE IF IsDotGitDir(p) THEN { Append(p, n) : n \in GitInternalNames }
    ELSE {}

ReadDirFails(p) == p \in unreadable

DepthLimitReached_off(depth) == FALSE

\* scanner.rs:33-37
DepthLimitReached(depth) == \E m \in max_depth : depth >= m

\* scanner.rs:41-44: a found repository does not end the descent
StopAfterRepository(p) == FALSE

\* scanner.rs:75-83, the two skips applied to a sub-directory before recursing
SkipsEntry(dir_name) ==
    \/ should_exclude(dir_name)
    \/ (StartsWith(dir_name, <<".">>) /\ dir_name # DotGit)

ReadDirErrorReturned_on(path) == TRUE

\* scanner.rs:47-53: a failed read_dir ends this call with Ok(()), not with Err
ReadDirErrorReturned(path) == FALSE

\* scanner.rs:31-90.  acc = [repos, visited, failed]; failed stands for an Err
\* on its way up through the `?` at scanner.rs:86 and :26.  The entries are
\* taken in an arbitrary fixed order (read_dir promises none).
RECURSIVE scan_recursive(_, _, _), scan_entries(_, _, _, _)
scan_recursive(path, depth, acc) ==
    LET seen == [acc EXCEPT !.visited = Append(@, path)] IN
    IF DepthLimitReached(depth) THEN seen
    ELSE LET found == IF is_git_repository(path)
                      THEN [seen EXCEPT !.repos = Append(@, path)]
                      ELSE seen
         IN  IF StopAfterRepository(path) THEN found
             ELSE IF ReadDirFails(path)
                  THEN [found EXCEPT !.failed = ReadDirErrorReturned(path)]
             ELSE scan_entries(path, depth, SubDirs(path), found)

scan_entries(path, depth, todo, acc) ==
    IF todo = {} \/ acc.failed THEN acc
    ELSE LET entry == CHOOSE q \in todo : TRUE
             rest == todo \ {entry}
         IN  IF SkipsEntry(LastName(entry))
             THEN scan_entries(path, depth, rest, acc)
             ELSE scan_entries(path, depth, rest, scan_recursive(entry, depth + 1, acc))

\* Scanner::scan, scanner.rs:24-28
scan(root) == scan_recursive(root, 0, [repos |-> <<>>, visited |-> <<>>, failed |-> FALSE])

InitScan ==
    /\ dirs \in TreesUpTo(MaxDirs)
    /\ gitKind \in [dirs -> GitKinds]
    /\ unreadable \in { {} } \cup { {d} : d \in dirs }
    /\ exclude_patterns \in PatternSets
    /\ max_depth \in DepthOptions
    /\ scan_pc = "idle"
    /\ repos = <<>>
    /\ visited = <<>>
    /\ WalkIdle
    /\ StatsIdle
    /\ PrIdle
    /\ UrlIdle
    /\ BatchIdle
    /\ SplitIdle
    /\ KeyIdle
    /\ CacheIdle
    /\ CliIdle

Scan ==
    /\ scan_pc = "idle"
    /\ LET out == scan(<<>>) IN
        /\ repos' = IF out.failed THEN <<>> ELSE out.repos
        /\ visited' = out.visited
        /\ scan_pc' = IF out.failed THEN "failed" ELSE "done"
    /\ UNCHANGED <<dirs, gitKind, unreadable, exclude_patterns, max_depth>>
    /\ UNCHANGED <<walkVars, statsVars, prVars, urlVars, batchVars, splitVars, keyVars, cacheVars, cliVars>>

NextScan == Scan

SpecScan == InitScan /\ [][NextScan]_vars

----------------------------------------------------------------------------
(* u32 arithmetic.  A u32 is <<hi, lo>>, two 16-bit limbs, so that the full *)
(* 32-bit range is exact; a sum that is not reduced keeps an unbounded hi.  *)

Limb == 65536

U32(n) == <<n \div Limb, n % Limb>>
U32Max == <<Limb - 1, Limb - 1>>

\* the exact sum of two naturals in limb form
NatAdd(a, b) ==
    LET lo == a[2] + b[2] IN <<a[1] + b[1] + (lo \div Limb), lo % Limb>>

FitsU32(a) == a[1] < Limb

\* a + b on u32, wrapped modulo 2^32
WrappingAdd(a, b) ==
    LET e == NatAdd(a, b) IN <<e[1] % Limb, e[2]>>

----------------------------------------------------------------------------
(* Statistics: RepoStats in src/git/mod.rs *)

SecondsPerDay == 86400

\* commit.timestamp.format("%Y-%m-%d"): the UTC calendar day, as a day number
DateOf(timestamp) == timestamp \div SecondsPerDay

Panic == [tag |-> "panic"]

\* RepoStats::default(), mod.rs:92
DefaultStats ==
    [tag |-> "ok",
     total_commits |-> U32(0), total_files_changed |-> U32(0),
     total_insertions |-> U32(0), total_deletions |-> U32(0),
     pr_count |-> 0, commit_frequency |-> << >>]

\* `a += b` on a u32 field: with overflow checks an overflowing sum panics
AddAssign(a, b, checks) ==
    IF checks /\ ~FitsU32(NatAdd(a, b)) THEN Panic ELSE [tag |-> "ok", v |-> WrappingAdd(a, b)]

\* *map.entry(date).or_insert(0) += 1, mod.rs:127
BumpEntry(map, date) ==
    IF date \in DOMAIN map
    THEN [map EXCEPT ![date] = @ + 1]
    ELSE [d \in DOMAIN map \cup {date} |-> IF d = date THEN 1 ELSE map[d]]

\* one round of the loop at mod.rs:114-128
FoldCommit(stats, pr_set, commit, checks) ==
    LET tc == AddAssign(stats.total_commits, U32(1), checks)
        tf == AddAssign(stats.total_files_changed, U32(Len(commit.files_changed)), checks)
        ti == AddAssign(stats.total_insertions, commit.insertions, checks)
        td == AddAssign(stats.total_deletions, commit.deletions, checks)
    IN  IF \E r \in {tc, tf, ti, td} : r.tag = "panic"
        THEN [stats |-> Panic, pr_set |-> pr_set]
        ELSE [stats |->
                [stats EXCEPT !.total_commits = tc.v,
                              !.total_files_changed = tf.v,
                              !.total_insertions = ti.v,
                              !.total_deletions = td.v,
                              !.commit_frequency = BumpEntry(@, DateOf(commit.timestamp))],
              pr_set |-> pr_set \cup { commit.pr_numbers[k] : k \in 1..Len(commit.pr_numbers) }]

RECURSIVE FoldCommits(_, _, _, _, _)
FoldCommits(commits, i, stats, pr_set, checks) ==
    IF i > Len(commits)
    THEN [stats EXCEPT !.pr_count = Cardinality(pr_set)]
    ELSE LET step == FoldCommit(stats, pr_set, commits[i], checks)
         IN  IF step.stats.tag = "panic" THEN Panic
             ELSE FoldCommits(commits, i + 1, step.stats, step.pr_set, checks)

\* RepoStats::from_commits, mod.rs:110-132
from_commits(commits, checks) == FoldCommits(commits, 1, DefaultStats, {}, checks)

\* stats::calculate_commit_frequency, src/git/stats.rs:10-19
RECURSIVE calculate_commit_frequency_from(_, _, _)
calculate_commit_frequency_from(commits, i, frequency) ==
    IF i > Len(commits) THEN frequency
    ELSE calculate_commit_frequency_from(commits, i + 1,
            BumpEntry(frequency, DateOf(commits[i].timestamp)))

calculate_commit_frequency(commits) == calculate_commit_frequency_from(commits, 1, << >>)

\* the commits RepoStats::from_commits is tried on
SampleCommits ==
    { [files_changed |-> <<"file1.rs", "file2.rs">>, insertions |-> U32(10), deletions |-> U32(5),
       pr_numbers |-> <<123>>, timestamp |-> 0],
      [files_changed |-> <<"file1.rs">>, insertions |-> U32(1), deletions |-> U32(0),
       pr_numbers |-> <<7, 123>>, timestamp |-> SecondsPerDay - 1],
      [files_changed |-> << >>, insertions |-> U32Max, deletions |-> U32(0),
       pr_numbers |-> << >>, timestamp |-> SecondsPerDay],
      [files_changed |-> <<"file2.rs">>, insertions |-> U32(0), deletions |-> U32Max,
       pr_numbers |-> <<7, 7>>, timestamp |-> SecondsPerDay] }

MaxStatCommits == 3

InitStats ==
    /\ ScanIdle
    /\ WalkIdle
    /\ PrIdle
    /\ UrlIdle
    /\ BatchIdle
    /\ SplitIdle
    /\ KeyIdle
    /\ CacheIdle
    /\ CliIdle
    /\ overflow_checks \in BOOLEAN
    /\ stat_commits \in SeqsUpTo(SampleCommits, MaxStatCommits)
    /\ stats_pc = "idle"
    /\ stats_out = NoResult

FromCommits ==
    /\ stats_pc = "idle"
    /\ stats_out' = from_commits(stat_commits, overflow_checks)
    /\ stats_pc' = "done"
    /\ UNCHANGED <<overflow_checks, stat_commits>>
    /\ UNCHANGED <<scanVars, walkVars, prVars, urlVars, batchVars, splitVars, keyVars, cacheVars, cliVars>>

NextStats == FromCommits

SpecStats == InitStats /\ [][NextStats]_vars

----------------------------------------------------------------------------
(* Commit walker: src/git/parser.rs, Timespan in src/git/mod.rs *)

GitError == [tag |-> "err", kind |-> "Git"]

\* chrono's DateTime<Utc> cannot hold seconds beyond this (scaled: the real
\* limit is the end of year 262142); Utc.timestamp_opt(..).single() is None there
ChronoMax == 4

\* commit times in git objects: 1..ChronoMax are representable, TooFar is not
TooFar == ChronoMax + 1

E_test == <<"t","e","s","t","@","E","x">>
E_ops == <<"o","p","s","@","e","x">>
AuthorEmails == {E_test, E_ops}

\* Some(filter) values: E_test in another letter case, and a part of E_ops
\* in another letter case
F_Test == <<"T","e","s","t","@","e","x">>
F_part == <<"P","S","@">>
AuthorFilters == { {}, {F_Test}, {F_part} }

MaxCommits == 3

\* the commit times of the walked histories: the window [2, 3], the day before
\* it and the day after it
CommitTimes == {1, 2, 3, 4}

\* parents of the i-th commit made: none (a root), the previous commit, or a
\* merge of the previous commit (first parent) with an older one
ParentChoices(i) ==
    {<< >>} \cup (IF i > 1 THEN {<<i - 1>>} ELSE {})
            \cup { <<i - 1, j>> : j \in 1..(i - 2) }

RECURSIVE ParentLists(_)
\* the parent lists of the first n commits made
ParentLists(n) ==
    IF n = 0 THEN { << >> }
    ELSE { Append(ps, c) : ps \in ParentLists(n - 1), c \in ParentChoices(n) }

\* a tree is a function from file paths to file contents, a content a list of lines
F_a == "a.rs"
F_b == "b.rs"

\* the file paths in the order a diff lists its deltas
FileOrder == <<F_a, F_b>>

EmptyTree == [f \in {} |-> << >>]

\* the tree the test repositories commit: test.txt holding one line
OneLineTree == [f \in {F_a} |-> <<"content">>]

\* the trees a commit of a diffed history can have
SampleTrees ==
    { EmptyTree,
      OneLineTree,
      [f \in {F_a} |-> <<"content", "more">>],
      [f \in {F_a, F_b} |-> IF f = F_a THEN <<"more">> ELSE <<"content">>],
      [f \in {F_b} |-> <<"content">>] }

\* the object stores with n commits: times, tree states, parent lists and trees
\* drawn from the given sets
IsHistoryOver(store, n, times, emails, treeOk, parentLists, trees) ==
    \E tm \in [1..n -> times], em \in [1..n -> emails],
       ps \in parentLists, ok \in [1..n -> treeOk], tr \in [1..n -> trees] :
        store = [i \in 1..n |->
                    [time |-> tm[i], email |-> em[i], parents |-> ps[i],
                     tree_ok |-> ok[i], tree |-> tr[i]]]

\* the object stores with n commits, times and tree states drawn from the given sets
IsHistory(store, n, times, treeOk) ==
    IsHistoryOver(store, n, times, AuthorEmails, treeOk, ParentLists(n), {OneLineTree})

HeadOid == Len(odb)

\* Timespan::contains with an exclusive end
Timespan_contains_open(ts, date) == date >= ts.start /\ date < ts.end

\* Timespan::contains, mod.rs:163-165
Timespan_contains(ts, date) == date >= ts.start /\ date <= ts.end

\* Parser::convert_timestamp, parser.rs:91-96
convert_timestamp(obj) ==
    IF obj.time <= ChronoMax THEN obj.time ELSE now

\* the author test with a case-sensitive comparison
AuthorPasses_case(email) ==
    \A filter_email \in author_email : StrContains(email, filter_email)

\* parser.rs:53-57
AuthorPasses(email) ==
    \A filter_email \in author_email :
        StrContains(to_lowercase(email), to_lowercase(filter_email))

\* revwalk.push_head() then the walk: every commit reachable from HEAD,
\* collected by following parents (libgit2 behind parser.rs:27-37)
RECURSIVE CollectReachable(_, _)
CollectReachable(todo, seen) ==
    IF todo = {} THEN seen
    ELSE LET c == CHOOSE x \in todo : TRUE
             ps == { odb[c].parents[k] : k \in 1..Len(odb[c].parents) }
         IN  CollectReachable((todo \cup ps) \ (seen \cup {c}), seen \cup {c})

RECURSIVE SortByTime_oldest(_)
SortByTime_oldest(S) ==
    IF S = {} THEN << >>
    ELSE LET top == CHOOSE c \in S :
                        \A d \in S : \/ odb[c].time < odb[d].time
                                     \/ (odb[c].time = odb[d].time /\ c <= d)
         IN  <<top>> \o SortByTime_oldest(S \ {top})

\* git2::Sort::TIME: newest commit time first; equal times in the order the
\* commits were made, newest first
RECURSIVE SortByTime(_)
SortByTime(S) ==
    IF S = {} THEN << >>
    ELSE LET top == CHOOSE c \in S :
                        \A d \in S : \/ odb[c].time > odb[d].time
                                     \/ (odb[c].time = odb[d].time /\ c >= d)
         IN  <<top>> \o SortByTime(S \ {top})

Revwalk == SortByTime(CollectReachable({HeadOid}, {}))

RECURSIVE Lcs(_, _)
\* the length of a longest common subsequence of two lists of lines
Lcs(a, b) ==
    IF a = << >> \/ b = << >> THEN 0
    ELSE IF Head(a) = Head(b) THEN 1 + Lcs(Tail(a), Tail(b))
    ELSE LET l == Lcs(Tail(a), b)
             r == Lcs(a, Tail(b))
         IN  IF l >= r THEN l ELSE r

\* the content of a path in a tree, no lines when the tree has no such path
LinesOf(tree, f) == IF f \in DOMAIN tree THEN tree[f] ELSE << >>

\* repo.diff_tree_to_tree has a delta for this path
HasDelta(old, new, f) ==
    \/ (f \in DOMAIN old) # (f \in DOMAIN new)
    \/ (f \in DOMAIN old /\ f \in DOMAIN new /\ old[f] # new[f])

RECURSIVE SumOver(_, _)
\* the sum of the numbers in a list
SumOver(v, i) == IF i > Len(v) THEN 0 ELSE v[i] + SumOver(v, i + 1)

\* diff.stats() and diff.foreach of repo.diff_tree_to_tree(old, new), parser.rs:141-163
diff_tree_to_tree(old, new) ==
    LET Changed(f) == HasDelta(old, new, f)
        deltas == SelectSeq(FileOrder, Changed)
        ins == [k \in 1..Len(deltas) |->
                  Len(LinesOf(new, deltas[k])) - Lcs(LinesOf(old, deltas[k]), LinesOf(new, deltas[k]))]
        del == [k \in 1..Len(deltas) |->
                  Len(LinesOf(old, deltas[k])) - Lcs(LinesOf(old, deltas[k]), LinesOf(new, deltas[k]))]
    IN  [files_changed |-> deltas, insertions |-> SumOver(ins, 1), deletions |-> SumOver(del, 1)]

parent_tree_last(oid) ==
    IF Len(odb[oid].parents) = 0 THEN EmptyTree
    ELSE odb[odb[oid].parents[Len(odb[oid].parents)]].tree

\* parser.rs:135-145: the tree of parent(0), or no tree (the diff is then
\* against the empty tree) for a commit without parents
parent_tree(oid) ==
    IF Len(odb[oid].parents) = 0 THEN EmptyTree
    ELSE odb[odb[oid].parents[1]].tree

\* Parser::get_diff_stats, parser.rs:123-166: fails when the trees cannot be read
get_diff_stats(oid) ==
    IF odb[oid].tree_ok
       /\ (Len(odb[oid].parents) > 0 => odb[odb[oid].parents[1]].tree_ok)
    THEN LET diff == diff_tree_to_tree(parent_tree(oid), odb[oid].tree)
         IN  [tag |-> "ok", files_changed |-> diff.files_changed,
              insertions |-> U32(diff.insertions), deletions |-> U32(diff.deletions)]
    ELSE GitError

\* the loop left at the first commit the filter rejects
RECURSIVE ParseLoop_break(_, _)
ParseLoop_break(walk, commits) ==
    IF walk = << >> THEN [tag |-> "ok", commits |-> commits]
    ELSE LET oid == Head(walk)
             timestamp == convert_timestamp(odb[oid])
         IN  IF ~Timespan_contains(timespan, timestamp) \/ ~AuthorPasses(odb[oid].email)
             THEN [tag |-> "ok", commits |-> commits]
             ELSE ParseLoop_break(Tail(walk),
                     Append(commits,
                        [hash |-> oid, email |-> odb[oid].email, timestamp |-> timestamp,
                         files_changed |-> << >>, insertions |-> U32(0),
                         deletions |-> U32(0), pr_numbers |-> << >>]))

\* the body of the loop at parser.rs:37-85 for each oid of the walk
RECURSIVE ParseLoop(_, _)
ParseLoop(walk, commits) ==
    IF walk = << >> THEN [tag |-> "ok", commits |-> commits]
    ELSE LET oid == Head(walk)
             timestamp == convert_timestamp(odb[oid])
         IN  IF ~Timespan_contains(timespan, timestamp) THEN ParseLoop(Tail(walk), commits)
             ELSE IF ~AuthorPasses(odb[oid].email) THEN ParseLoop(Tail(walk), commits)
             ELSE LET diff == get_diff_stats(oid) IN
                  IF diff.tag = "err" THEN GitError
                  ELSE ParseLoop(Tail(walk),
                         Append(commits,
                            [hash |-> oid,
                             email |-> odb[oid].email,
                             timestamp |-> timestamp,
                             files_changed |-> diff.files_changed,
                             insertions |-> diff.insertions,
                             deletions |-> diff.deletions,
                             pr_numbers |-> << >>]))

\* Parser::parse_commits, parser.rs:25-88
parse_commits ==
    IF ~repo_valid THEN GitError           \* Git2Repository::open(repo_path)?
    ELSE IF odb = << >> THEN GitError      \* revwalk.push_head()? on an unborn HEAD
    ELSE ParseLoop(Revwalk, << >>)

InitWalk ==
    /\ ScanIdle
    /\ StatsIdle
    /\ PrIdle
    /\ UrlIdle
    /\ BatchIdle
    /\ SplitIdle
    /\ KeyIdle
    /\ CacheIdle
    /\ CliIdle
    /\ repo_valid = TRUE
    /\ \E n \in 0..MaxCommits : IsHistory(odb, n, CommitTimes, {TRUE})
    /\ author_email \in AuthorFilters
    /\ timespan = [start |-> 2, end |-> 3]
    /\ now = timespan.end
    /\ walk_pc = "idle"
    /\ parsed = NoResult
    /\ analysis = NoResult
    /\ walks = << >>

ParseCommits ==
    /\ walk_pc = "idle"
    /\ parsed' = parse_commits
    /\ walk_pc' = "parsed"
    /\ UNCHANGED <<repo_valid, odb, author_email, timespan, now, analysis, walks>>
    /\ UNCHANGED <<scanVars, statsVars, prVars, urlVars, batchVars, splitVars, keyVars, cacheVars, cliVars>>

NextWalk == ParseCommits

SpecWalk == InitWalk /\ [][NextWalk]_vars

\* the parent lists of a diffed history: no parent, one earlier commit, or
\* two different earlier commits in either order
DiffParentChoices(i) ==
    {<< >>} \cup { <<j>> : j \in 1..(i - 1) }
            \cup { p \in (1..(i - 1)) \X (1..(i - 1)) : p[1] # p[2] }

RECURSIVE DiffParentLists(_)
DiffParentLists(n) ==
    IF n = 0 THEN { << >> }
    ELSE { Append(ps, c) : ps \in DiffParentLists(n - 1), c \in DiffParentChoices(n) }

MaxDiffCommits == 3

\* parse_commits on histories whose commits carry different trees, with no
\* author filter and every commit inside the window
InitDiff ==
    /\ ScanIdle
    /\ StatsIdle
    /\ PrIdle
    /\ UrlIdle
    /\ BatchIdle
    /\ SplitIdle
    /\ KeyIdle
    /\ CacheIdle
    /\ CliIdle
    /\ repo_valid = TRUE
    /\ \E n \in 1..MaxDiffCommits :
          IsHistoryOver(odb, n, {2}, {E_ops}, {TRUE}, DiffParentLists(n), SampleTrees)
    /\ author_email = {}
    /\ timespan = [start |-> 2, end |-> 3]
    /\ now = timespan.end
    /\ walk_pc = "idle"
    /\ parsed = NoResult
    /\ analysis = NoResult
    /\ walks = << >>

SpecDiff == InitDiff /\ [][NextWalk]_vars

\* the commit times of a history walked twice: inside the window, after it,
\* and beyond what a DateTime<Utc> holds
RewalkTimes == {2, ChronoMax, TooFar}

MaxRewalkCommits == 2

MaxWalks == 2

\* the same Parser on the same repository, called MaxWalks times while the
\* clock runs
InitRewalk ==
    /\ ScanIdle
    /\ StatsIdle
    /\ PrIdle
    /\ UrlIdle
    /\ BatchIdle
    /\ SplitIdle
    /\ KeyIdle
    /\ CacheIdle
    /\ CliIdle
    /\ repo_valid = TRUE
    /\ \E n \in 0..MaxRewalkCommits : IsHistory(odb, n, RewalkTimes, {TRUE})
    /\ author_email \in AuthorFilters
    /\ timespan = [start |-> 2, end |-> 3]
    /\ now \in 1..3
    /\ walk_pc = "idle"
    /\ parsed = NoResult
    /\ analysis = NoResult
    /\ walks = << >>

\* one more call of Parser::parse_commits, parser.rs:25-88
ParseCommitsAgain ==
    /\ Len(walks) < MaxWalks
    /\ walks' = Append(walks, parse_commits)
    /\ UNCHANGED <<repo_valid, odb, author_email, timespan, now, walk_pc, parsed, analysis>>
    /\ UNCHANGED <<scanVars, statsVars, prVars, urlVars, batchVars, splitVars, keyVars, cacheVars, cliVars>>

\* time passes: Utc::now() (parser.rs:95) gives a later instant
ClockTick ==
    /\ now < ChronoMax
    /\ now' = now + 1
    /\ UNCHANGED <<repo_valid, odb, author_email, timespan, walk_pc, parsed, analysis, walks>>
    /\ UNCHANGED <<scanVars, statsVars, prVars, urlVars, batchVars, splitVars, keyVars, cacheVars, cliVars>>

NextRewalk == ParseCommitsAgain \/ ClockTick

SpecRewalk == InitRewalk /\ [][NextRewalk]_vars

----------------------------------------------------------------------------
(* Repository assembly: Orchestrator::analyze_repository, src/orchestrator.rs *)

AnyAuthor == <<"a","n","y">>

\* DevRecapError::NoCommitsFound { author }, orchestrator.rs:62-64
NoCommitsFound ==
    [tag |-> "err", kind |-> "NoCommitsFound",
     author |-> IF author_email = {} THEN AnyAuthor ELSE CHOOSE f \in author_email : TRUE]

IsEmpty_never(commits) == FALSE

\* commits.is_empty(), orchestrator.rs:61
IsEmpty(commits) == commits = << >>

\* the record built with statistics that were never computed
analyze_parsed_default_stats(result, no_commits) ==
    IF result.tag = "err" THEN result
    ELSE IF IsEmpty(result.commits) THEN no_commits
    ELSE [tag |-> "ok", commits |-> result.commits, stats |-> DefaultStats]

\* orchestrator.rs:61-85, what analyze_repository makes of the parse result.
\* name, remote_url and github_info are read from the path and the remote;
\* they do not depend on the walk.
analyze_parsed(result, no_commits) ==
    IF result.tag = "err" THEN result
    ELSE IF IsEmpty(result.commits) THEN no_commits
    ELSE LET stats == from_commits(result.commits, overflow_checks) IN
         IF stats.tag = "panic" THEN Panic
         ELSE [tag |-> "ok", commits |-> result.commits, stats |-> stats]

\* Orchestrator::analyze_repository, orchestrator.rs:51-85
analyze_repository == analyze_parsed(parse_commits, NoCommitsFound)

MaxHistory == 2

InitAnalyze ==
    /\ ScanIdle
    /\ StatsIdle
    /\ PrIdle
    /\ UrlIdle
    /\ BatchIdle
    /\ SplitIdle
    /\ KeyIdle
    /\ CacheIdle
    /\ CliIdle
    /\ repo_valid \in BOOLEAN
    /\ IF repo_valid
       THEN \E n \in 0..MaxHistory : IsHistory(odb, n, {1, 3, TooFar}, BOOLEAN)
       ELSE odb = << >>
    /\ author_email \in AuthorFilters
    /\ timespan = [start |-> 2, end |-> 3]
    /\ now \in {3, 4}
    /\ walk_pc = "idle"
    /\ parsed = NoResult
    /\ analysis = NoResult
    /\ walks = << >>

AnalyzeRepository ==
    /\ walk_pc = "idle"
    /\ analysis' = analyze_repository
    /\ walk_pc' = "analyzed"
    /\ UNCHANGED <<repo_valid, odb, author_email, timespan, now, parsed, walks>>
    /\ UNCHANGED <<scanVars, statsVars, prVars, urlVars, batchVars, splitVars, keyVars, cacheVars, cliVars>>

NextAnalyze == AnalyzeRepository

SpecAnalyze == InitAnalyze /\ [][NextAnalyze]_vars

----------------------------------------------------------------------------
(* A run over several repositories: Orchestrator::analyze_repositories,    *)
(* src/orchestrator.rs, and the loop of run_analysis, src/main.rs          *)

\* a commit as the test repositories have them, and one whose diff adds
\* u32::MAX lines
SmallCommit ==
    [files_changed |-> <<"test.txt">>, insertions |-> U32(1), deletions |-> U32(0),
     pr_numbers |-> << >>, timestamp |-> 0]
HugeCommit ==
    [files_changed |-> <<"test.txt">>, insertions |-> U32Max, deletions |-> U32(0),
     pr_numbers |-> << >>, timestamp |-> 0]

ClaudeApiError == [tag |-> "err", kind |-> "ClaudeApi"]
SummaryOk == [tag |-> "ok"]

\* what one path of the run meets: the Result of parse_commits on it and the
\* Result of the API call for it
PathEnvs ==
    { [parsed |-> GitError, summary |-> SummaryOk],
      [parsed |-> [tag |-> "ok", commits |-> << >>], summary |-> SummaryOk],
      [parsed |-> [tag |-> "ok", commits |-> <<SmallCommit>>], summary |-> SummaryOk],
      [parsed |-> [tag |-> "ok", commits |-> <<SmallCommit>>], summary |-> ClaudeApiError],
      [parsed |-> [tag |-> "ok", commits |-> <<HugeCommit, SmallCommit>>], summary |-> SummaryOk] }

PathNames == { <<"w", "e", "b">>, <<"a", "p", "i">> }

BatchCallers == {"analyze_repositories", "run_analysis", "run_analysis_dry"}

MaxPaths == 3

\* the placeholder of a failed analysis, orchestrator.rs:159-166 and main.rs:218-225
MinimalRepository(repo_path) ==
    [path |-> repo_path, name |-> repo_path, commits |-> << >>, stats |-> DefaultStats]

\* orchestrator.rs:155 and main.rs:202-215: the summary of an analysed repository
SummaryFor(env) ==
    IF batch_caller = "run_analysis_dry" THEN SummaryOk ELSE env.summary

InitBatch ==
    /\ ScanIdle
    /\ WalkIdle
    /\ PrIdle
    /\ UrlIdle
    /\ overflow_checks \in BOOLEAN
    /\ stat_commits = << >>
    /\ stats_pc = "idle"
    /\ stats_out = NoResult
    /\ batch_caller \in BatchCallers
    /\ \E n \in 0..MaxPaths :
          /\ repo_paths \in [1..n -> PathNames]
          /\ batch_env \in [1..n -> PathEnvs]
    /\ batch_i = 1
    /\ results = << >>
    /\ batch_pc = "loop"
    /\ SplitIdle
    /\ KeyIdle
    /\ CacheIdle
    /\ CliIdle

\* one round of the loop at orchestrator.rs:149-170 (main.rs:184-229)
AnalyzeNextRepository ==
    /\ batch_pc = "loop"
    /\ batch_i <= Len(repo_paths)
    /\ LET repo_path == repo_paths[batch_i]
           env == batch_env[batch_i]
           repo_result == analyze_parsed(env.parsed, NoCommitsFound)
       IN  IF repo_result.tag = "panic"
           THEN /\ batch_pc' = "panicked"
                /\ UNCHANGED <<results, batch_i>>
           ELSE IF repo_result.tag = "ok"
           THEN /\ results' = Append(results,
                       [repo |-> [path |-> repo_path, name |-> repo_path,
                                  commits |-> repo_result.commits, stats |-> repo_result.stats],
                        summary |-> SummaryFor(env)])
                /\ batch_i' = batch_i + 1
                /\ UNCHANGED batch_pc
           ELSE /\ results' = Append(results,
                       [repo |-> MinimalRepository(repo_path), summary |-> repo_result])
                /\ batch_i' = batch_i + 1
                /\ UNCHANGED batch_pc
    /\ UNCHANGED <<batch_caller, repo_paths, batch_env>>
    /\ UNCHANGED <<scanVars, walkVars, statsVars, prVars, urlVars, splitVars, keyVars, cacheVars, cliVars>>

\* the loop is over and the collection is handed on (orchestrator.rs:173)
ReturnResults ==
    /\ batch_pc = "loop"
    /\ batch_i > Len(repo_paths)
    /\ batch_pc' = "done"
    /\ UNCHANGED <<batch_caller, repo_paths, batch_env, batch_i, results>>
    /\ UNCHANGED <<scanVars, walkVars, statsVars, prVars, urlVars, splitVars, keyVars, cacheVars, cliVars>>

NextBatch == AnalyzeNextRepository \/ ReturnResults

SpecBatch == InitBatch /\ [][NextBatch]_vars

----------------------------------------------------------------------------
(* Reference extraction: extract_pr_numbers, src/git/github.rs *)

AsciiDigits == <<"0","1","2","3","4","5","6","7","8","9">>

\* ARABIC-INDIC DIGIT THREE, one of the non-ASCII decimal digits \d matches
ArabicThree == "U+0663"

DigitTable ==
    [c \in { AsciiDigits[i] : i \in 1..10 } \cup {ArabicThree} |->
        IF c = ArabicThree THEN 3 ELSE (CHOOSE i \in 1..10 : AsciiDigits[i] = c) - 1]

\* the regex class \d (Unicode decimal digits)
IsRegexDigit(c) == c \in DOMAIN DigitTable

IsAsciiDigit(c) == c \in DOMAIN DigitTable /\ c # ArabicThree

\* ten times a natural in limb form, plus a digit
TimesTenPlus(a, d) ==
    LET lo == a[2] * 10 + d IN <<a[1] * 10 + (lo \div Limb), lo % Limb>>

TooBig == <<Limb, 0>>

RECURSIVE DecimalValueFrom(_, _, _)
\* the decimal value of digits[i..], continuing from acc; every value of
\* 2^32 or more is TooBig
DecimalValueFrom(digits, i, acc) ==
    IF i > Len(digits) THEN acc
    ELSE LET next == TimesTenPlus(acc, DigitTable[digits[i]])
         IN  IF ~FitsU32(next) THEN TooBig ELSE DecimalValueFrom(digits, i + 1, next)

DecimalValue(digits) == DecimalValueFrom(digits, 1, U32(0))

\* str::parse::<u32>(): ASCII digits only, and the value must fit
ParseU32(digits) ==
    IF \E k \in 1..Len(digits) : ~IsAsciiDigit(digits[k]) THEN [tag |-> "err"]
    ELSE IF DecimalValue(digits) = TooBig THEN [tag |-> "err"]
    ELSE [tag |-> "ok", v |-> DecimalValue(digits)]

P_hash == <<"#">>
P_gh == <<"G","H","-">>
P_pr == <<"P","R","#">>
P_pull == <<"p","u","l","l"," ","r","e","q","u","e","s","t"," ","#">>

\* the four patterns of github.rs:13-18, each a literal followed by (\d+)
PrPatterns == <<P_hash, P_gh, P_pr, P_pull>>

OccursAt(lit, msg, pos) ==
    pos + Len(lit) - 1 <= Len(msg) /\ SubSeq(msg, pos, pos + Len(lit) - 1) = lit

RECURSIVE DigitRunEnd(_, _)
\* the last position of the run of digits that starts at pos
DigitRunEnd(msg, pos) ==
    IF pos + 1 <= Len(msg) /\ IsRegexDigit(msg[pos + 1]) THEN DigitRunEnd(msg, pos + 1) ELSE pos

RECURSIVE CapturesIter(_, _, _, _)
\* re.captures_iter(message) for the pattern lit(\d+): group 1 of the
\* successive non-overlapping matches, leftmost first
CapturesIter(lit, msg, pos, caps) ==
    IF pos > Len(msg) THEN caps
    ELSE LET d == pos + Len(lit) IN
         IF OccursAt(lit, msg, pos) /\ d <= Len(msg) /\ IsRegexDigit(msg[d])
         THEN LET e == DigitRunEnd(msg, d)
              IN  CapturesIter(lit, msg, e + 1, Append(caps, SubSeq(msg, d, e)))
         ELSE CapturesIter(lit, msg, pos + 1, caps)

U32Less(a, b) == a[1] < b[1] \/ (a[1] = b[1] /\ a[2] < b[2])

RECURSIVE SortU32(_)
\* Vec<u32>::sort
SortU32(v) ==
    IF v = << >> THEN << >>
    ELSE LET k == CHOOSE i \in 1..Len(v) : \A j \in 1..Len(v) : ~U32Less(v[j], v[i])
             rest == [j \in 1..(Len(v) - 1) |-> IF j < k THEN v[j] ELSE v[j + 1]]
         IN  <<v[k]>> \o SortU32(rest)

AlreadyThere_never(numbers, num) == FALSE

\* pr_numbers.contains(&num), github.rs:25
AlreadyThere(numbers, num) == \E k \in 1..Len(numbers) : numbers[k] = num

RECURSIVE PushCaptures(_, _, _)
\* github.rs:22-30 for the captures of one pattern
PushCaptures(caps, i, numbers) ==
    IF i > Len(caps) THEN numbers
    ELSE LET num == ParseU32(caps[i])
         IN  IF num.tag = "ok" /\ ~AlreadyThere(numbers, num.v)
             THEN PushCaptures(caps, i + 1, Append(numbers, num.v))
             ELSE PushCaptures(caps, i + 1, numbers)

RECURSIVE ForPatterns(_, _, _)
\* the loop over the patterns, github.rs:20-32
ForPatterns(msg, p, numbers) ==
    IF p > Len(PrPatterns) THEN numbers
    ELSE ForPatterns(msg, p + 1,
            PushCaptures(CapturesIter(PrPatterns[p], msg, 1, << >>), 1, numbers))

\* extract_pr_numbers, github.rs:5-36
extract_pr_numbers(msg) == SortU32(ForPatterns(msg, 1, << >>))

\* the pieces commit messages are put together from
MessageTokens ==
    { P_hash, P_gh, P_pr, P_pull, <<" ">>, <<"7">>, <<"1","2">>, <<"0">>,
      <<"4","2","9","4","9","6","7","2","9","5">>, <<ArabicThree>> }

MaxTokens == 4

InitPr ==
    /\ ScanIdle
    /\ WalkIdle
    /\ StatsIdle
    /\ UrlIdle
    /\ BatchIdle
    /\ SplitIdle
    /\ KeyIdle
    /\ CacheIdle
    /\ CliIdle
    /\ \E parts \in SeqsUpTo(MessageTokens, MaxTokens) : message = Concat(parts)
    /\ pr_pc = "idle"
    /\ pr_numbers = << >>

ExtractPrNumbers ==
    /\ pr_pc = "idle"
    /\ pr_numbers' = extract_pr_numbers(message)
    /\ pr_pc' = "done"
    /\ UNCHANGED message
    /\ UNCHANGED <<scanVars, walkVars, statsVars, urlVars, batchVars, splitVars, keyVars, cacheVars, cliVars>>

NextPr == ExtractPrNumbers

SpecPr == InitPr /\ [][NextPr]_vars

----------------------------------------------------------------------------
(* Remote URL parsing: parse_github_url, src/git/github.rs *)

IsWhitespace(c) == c \in {" ", "\t", "\n", "\r"}

RECURSIVE TrimStart(_), TrimEnd(_)
TrimStart(s) == IF s # << >> /\ IsWhitespace(Head(s)) THEN TrimStart(Tail(s)) ELSE s
TrimEnd(s) ==
    IF s # << >> /\ IsWhitespace(s[Len(s)]) THEN TrimEnd(SubSeq(s, 1, Len(s) - 1)) ELSE s

\* str::trim
Trim(s) == TrimEnd(TrimStart(s))

RECURSIVE trim_end_matches(_, _)
\* str::trim_end_matches: the suffix is removed as often as it occurs at the end
trim_end_matches(s, suf) ==
    IF Len(suf) > 0 /\ Len(s) >= Len(suf) /\ SubSeq(s, Len(s) - Len(suf) + 1, Len(s)) = suf
    THEN trim_end_matches(SubSeq(s, 1, Len(s) - Len(suf)), suf)
    ELSE s

DotGitSuffix == <<".", "g", "i", "t">>

L_https == <<"h","t","t","p","s",":","/","/","g","i","t","h","u","b",".","c","o","m","/">>
L_ssh == <<"g","i","t","@","g","i","t","h","u","b",".","c","o","m",":">>
L_git == <<"g","i","t",":","/","/","g","i","t","h","u","b",".","c","o","m","/">>

\* the literal heads of the three regexes, in the order they are tried
UrlForms == <<L_https, L_ssh, L_git>>

RECURSIVE RunEnd(_, _, _)
\* the last position of the longest run from pos of characters outside stop
\* (pos - 1 when the run is empty)
RunEnd(s, pos, stop) ==
    IF pos <= Len(s) /\ s[pos] \notin stop THEN RunEnd(s, pos + 1, stop) ELSE pos - 1

\* the class [^/.] of the second group
RepoStops == {"/", "."}

\* lit([^/]+)/([^/.]+) matched with its head at pos: the two groups, or none
MatchAt(lit, s, pos) ==
    IF ~OccursAt(lit, s, pos) THEN {}
    ELSE LET o1 == pos + Len(lit)
             o2 == RunEnd(s, o1, {"/"})
         IN  IF o2 < o1 \/ o2 + 1 > Len(s) THEN {}
             ELSE LET r1 == o2 + 2
                      r2 == RunEnd(s, r1, RepoStops)
                  IN  IF r2 < r1 THEN {}
                      ELSE { [owner |-> SubSeq(s, o1, o2), repo |-> SubSeq(s, r1, r2)] }

RECURSIVE Captures(_, _, _)
\* Regex::captures: the leftmost match anywhere in s
Captures(lit, s, pos) ==
    IF pos > Len(s) THEN {}
    ELSE IF MatchAt(lit, s, pos) # {} THEN MatchAt(lit, s, pos)
    ELSE Captures(lit, s, pos + 1)

RECURSIVE TryForms(_, _)
\* github.rs:48-81
TryForms(s, f) ==
    IF f > Len(UrlForms) THEN {}
    ELSE LET caps == Captures(UrlForms[f], s, 1)
         IN  IF caps # {}
             THEN { [owner |-> c.owner, repo |-> trim_end_matches(c.repo, DotGitSuffix)] : c \in caps }
             ELSE TryForms(s, f + 1)

\* parse_github_url, github.rs:39-82
parse_github_url(u) == TryForms(Trim(u), 1)

S_owner == <<"o","w","n","e","r">>
S_repo == <<"r","e","p","o">>
S_dotted == <<"m","y",".","r","e","p","o">>
S_dotfirst == <<".","g","i","t","h","u","b">>
L_gitlab == <<"h","t","t","p","s",":","/","/","g","i","t","l","a","b",".","c","o","m","/">>
L_redirect == <<"h","t","t","p","s",":","/","/","e","x","a","m","p","l","e",".","o","r","g","/","g","o","?","t","o","=">>

\* what a URL is put together from: lead, head, owner, separator, repository
\* name, tail
UrlLeads == { << >>, <<" ">>, L_redirect }
UrlHeads == { L_https, L_ssh, L_git, L_gitlab, << >> }
UrlOwners == { S_owner, << >> }
UrlSeparators == { <<"/">>, << >> }
UrlRepos == { S_repo, S_dotted, S_dotfirst, << >> }
UrlTails == { << >>, DotGitSuffix, <<"/">>, <<".","g","i","t","\n">> }

UrlPartLists ==
    { <<l, h, o, sp, r, t>> :
        l \in UrlLeads, h \in UrlHeads, o \in UrlOwners,
        sp \in UrlSeparators, r \in UrlRepos, t \in UrlTails }

InitUrl ==
    /\ ScanIdle
    /\ WalkIdle
    /\ StatsIdle
    /\ PrIdle
    /\ BatchIdle
    /\ SplitIdle
    /\ KeyIdle
    /\ CacheIdle
    /\ CliIdle
    /\ url_parts \in UrlPartLists
    /\ url = Concat(url_parts)
    /\ url_pc = "idle"
    /\ github_info = {}

ParseGithubUrl ==
    /\ url_pc = "idle"
    /\ github_info' = parse_github_url(url)
    /\ url_pc' = "done"
    /\ UNCHANGED <<url_parts, url>>
    /\ UNCHANGED <<scanVars, walkVars, statsVars, prVars, batchVars, splitVars, keyVars, cacheVars, cliVars>>

NextUrl == ParseGithubUrl

SpecUrl == InitUrl /\ [][NextUrl]_vars

----------------------------------------------------------------------------
(* Summary and body of a commit message: split_message, src/git/parser.rs *)

NewLine == "\n"
CarriageReturn == "\r"

\* str::split_inclusive('\n'): every piece keeps its terminator, and no empty
\* piece follows a final terminator
RECURSIVE split_inclusive(_, _, _)
split_inclusive(s, cur, out) ==
    IF s = << >> THEN (IF cur = << >> THEN out ELSE Append(out, cur))
    ELSE IF Head(s) = NewLine
         THEN split_inclusive(Tail(s), << >>, Append(out, Append(cur, NewLine)))
         ELSE split_inclusive(Tail(s), Append(cur, Head(s)), out)

\* what str::lines does to a piece: the "\n" goes, and a "\r" right before it
strip_line_ending(piece) ==
    IF piece # << >> /\ piece[Len(piece)] = NewLine
    THEN LET line == SubSeq(piece, 1, Len(piece) - 1)
         IN  IF line # << >> /\ line[Len(line)] = CarriageReturn
             THEN SubSeq(line, 1, Len(line) - 1)
             ELSE line
    ELSE piece

\* message.lines(), parser.rs:109
lines(s) ==
    LET pieces == split_inclusive(s, << >>, << >>)
    IN  [i \in 1..Len(pieces) |-> strip_line_ending(pieces[i])]

\* the summary made of the first line, parser.rs:110 (an untrimmed variant first)
SummaryOf_untrimmed(line) == line

SummaryOf(line) == Trim(line)

\* skip_while(|l| l.trim().is_empty()), parser.rs:113
RECURSIVE skip_while_blank(_)
skip_while_blank(ls) ==
    IF ls # << >> /\ Trim(Head(ls)) = << >> THEN skip_while_blank(Tail(ls)) ELSE ls

\* body.join("\n"), parser.rs:118
RECURSIVE join(_)
join(ls) ==
    IF ls = << >> THEN << >>
    ELSE IF Len(ls) = 1 THEN ls[1]
    ELSE ls[1] \o <<NewLine>> \o join(Tail(ls))

\* split_message, parser.rs:108-120; the body is {} for None and {b} for Some(b)
split_message(msg) ==
    LET ls      == lines(msg)
        summary == IF ls = << >> THEN << >> ELSE SummaryOf(Head(ls))
        body    == IF ls = << >> THEN << >> ELSE skip_while_blank(Tail(ls))
    IN  [summary |-> summary,
         body    |-> IF body = << >> THEN {} ELSE {join(body)}]

\* the characters commit messages are made of here
MessageChars == {"s", " ", NewLine, CarriageReturn}

MaxMessageLen == 7

InitSplit ==
    /\ ScanIdle
    /\ WalkIdle
    /\ StatsIdle
    /\ UrlIdle
    /\ BatchIdle
    /\ message \in SeqsUpTo(MessageChars, MaxMessageLen)
    /\ pr_pc = "idle"
    /\ pr_numbers = << >>
    /\ SplitIdle
    /\ KeyIdle
    /\ CacheIdle
    /\ CliIdle

SplitMessage ==
    /\ split_pc = "idle"
    /\ split_out' = split_message(message)
    /\ split_pc' = "done"
    /\ UNCHANGED <<scanVars, walkVars, statsVars, prVars, urlVars, batchVars, keyVars, cacheVars, cliVars>>

NextSplit == SplitMessage

SpecSplit == InitSplit /\ [][NextSplit]_vars

----------------------------------------------------------------------------
(* Cache keys: SummaryCache::generate_key, src/ai/cache.rs *)

\* str::as_bytes for the characters that paths and hashes are written with here
AsBytes(str) ==
    LET code == [c \in {"/", "w", "a", "b", "1", "2"} |->
                    CASE c = "/" -> 47 [] c = "1" -> 49 [] c = "2" -> 50
                      [] c = "a" -> 97 [] c = "b" -> 98 [] c = "w" -> 119]
    IN  [i \in 1..Len(str) |-> code[str[i]]]

\* DefaultHasher is SipHash-1-3 with the fixed keys (0, 0) of DefaultHasher::new():
\* a function of the bytes written, in the order they are written.  It is
\* stood for by a multiplicative hash of HashWidth values over the same bytes.
HashWidth == 65536

DefaultHasher_new == 0

RECURSIVE Hasher_write(_, _)
Hasher_write(state, bytes) ==
    IF bytes = << >> THEN state
    ELSE Hasher_write((state * 31 + Head(bytes)) % HashWidth, Tail(bytes))

\* impl Hash for str: the bytes, then the byte 0xff
str_hash(str, state) == Hasher_write(Hasher_write(state, AsBytes(str)), <<255>>)

HexDigits == <<"0","1","2","3","4","5","6","7","8","9","a","b","c","d","e","f">>

RECURSIVE LowerHex(_)
\* format!("{:x}", n)
LowerHex(n) ==
    IF n < 16 THEN <<HexDigits[n + 1]>>
    ELSE LowerHex(n \div 16) \o <<HexDigits[(n % 16) + 1]>>

P_summary == <<"s","u","m","m","a","r","y","_">>

RECURSIVE HashAll(_, _)
\* the loop at cache.rs:38-40
HashAll(commit_hashes, state) ==
    IF commit_hashes = << >> THEN state
    ELSE HashAll(Tail(commit_hashes), str_hash(Head(commit_hashes), state))

\* SummaryCache::generate_key, cache.rs:32-44
generate_key(repo_path, commit_hashes) ==
    P_summary \o LowerHex(HashAll(commit_hashes, str_hash(repo_path, DefaultHasher_new)))

RepoPathSamples == { <<"/","w">>, <<"/","a">> }
HashSamples == { <<"a","1">>, <<"b","2">>, <<"1","a">> }

MaxHashes == 2

\* lists of different hashes, as the commits of a repository have them
HashLists ==
    { hs \in SeqsUpTo(HashSamples, MaxHashes) :
        \A i, j \in 1..Len(hs) : i # j => hs[i] # hs[j] }

MaxKeyCalls == 2

InitKey ==
    /\ ScanIdle
    /\ WalkIdle
    /\ StatsIdle
    /\ PrIdle
    /\ UrlIdle
    /\ BatchIdle
    /\ SplitIdle
    /\ key_calls = << >>
    /\ CacheIdle
    /\ CliIdle

\* one call of SummaryCache::generate_key
GenerateKey ==
    /\ Len(key_calls) < MaxKeyCalls
    /\ \E p \in RepoPathSamples, hs \in HashLists :
          key_calls' = Append(key_calls,
                          [repo_path |-> p, commit_hashes |-> hs, key |-> generate_key(p, hs)])
    /\ UNCHANGED <<scanVars, walkVars, statsVars, prVars, urlVars, batchVars, splitVars, cacheVars, cliVars>>

NextKey == GenerateKey

SpecKey == InitKey /\ [][NextKey]_vars

----------------------------------------------------------------------------
(* Summary cache: SummaryCache, src/ai/cache.rs.  The clock is Utc::now() and *)
(* does not run backwards; an hour is one unit of it.  The sled store does    *)
(* what it is asked to.                                                        *)

EmptyDb == [k \in {} |-> << >>]

\* serde_json::to_vec of a CachedSummary (cache.rs:71), serde_json::from_slice
\* back (cache.rs:49)
to_vec(cached) == <<"summary", cached.summary, "cached_at", cached.cached_at>>
from_slice(data) == [summary |-> data[2], cached_at |-> data[4]]

\* an entry taken as expired as soon as its age reaches the TTL
is_expired_at_ttl(cached_at) == now - cached_at >= ttl_hours

\* SummaryCache::is_expired, cache.rs:77-81
is_expired(cached_at) == now - cached_at > ttl_hours

\* sled: db.remove(key) and db.insert(key, data)
DbRemove(db, key) == [k \in DOMAIN db \ {key} |-> db[k]]
DbInsert(db, key, data) == [k \in DOMAIN db \cup {key} |-> IF k = key THEN data ELSE db[k]]

\* SummaryCache::get, cache.rs:46-62: the Option returned ({} is None) and the
\* store afterwards
cache_get(db, key) ==
    IF key \in DOMAIN db
    THEN LET cached == from_slice(db[key])
         IN  IF is_expired(cached.cached_at)
             THEN [result |-> {}, db |-> DbRemove(db, key)]
             ELSE [result |-> {cached.summary}, db |-> db]
    ELSE [result |-> {}, db |-> db]

\* SummaryCache::set, cache.rs:64-75
cache_set(db, key, summary) ==
    DbInsert(db, key, to_vec([summary |-> summary, cached_at |-> now]))

\* SummaryCache::clear, cache.rs:84-90
cache_clear(db) == EmptyDb

\* SummaryCache::cleanup_expired, cache.rs:104-121
cleanup_expired(db) ==
    LET keep == { k \in DOMAIN db : ~is_expired(from_slice(db[k]).cached_at) }
    IN  [db |-> [k \in keep |-> db[k]], removed |-> Cardinality(DOMAIN db \ keep)]

CacheKeys == { <<"k","1">>, <<"k","2">> }
Summaries == { "first summary", "second summary" }
TtlOptions == {0, 1}

MaxCacheTime == 3

CacheOp(op, key, result, removed) ==
    [op |-> op, key |-> key, at |-> now, result |-> result, removed |-> removed]

\* SummaryCache::new, cache.rs:16-24: an empty store
InitCache ==
    /\ ScanIdle
    /\ WalkIdle
    /\ StatsIdle
    /\ PrIdle
    /\ UrlIdle
    /\ BatchIdle
    /\ SplitIdle
    /\ KeyIdle
    /\ cache_db = EmptyDb
    /\ ttl_hours \in TtlOptions
    /\ stored = EmptyDb
    /\ cache_op = CacheOp("new", << >>, {}, 0)
    /\ api_calls = 0
    /\ CliIdle

CacheSet ==
    /\ \E key \in CacheKeys, summary \in Summaries :
          /\ cache_db' = cache_set(cache_db, key, summary)
          /\ stored' = DbInsert(stored, key, [summary |-> summary, at |-> now])
          /\ cache_op' = CacheOp("set", key, {}, 0)
    /\ UNCHANGED <<ttl_hours, api_calls>>
    /\ UNCHANGED <<scanVars, walkVars, statsVars, prVars, urlVars, batchVars, splitVars, keyVars, cliVars>>

CacheGet ==
    /\ \E key \in CacheKeys :
          /\ cache_db' = cache_get(cache_db, key).db
          /\ cache_op' = CacheOp("get", key, cache_get(cache_db, key).result, 0)
    /\ UNCHANGED <<ttl_hours, stored, api_calls>>
    /\ UNCHANGED <<scanVars, walkVars, statsVars, prVars, urlVars, batchVars, splitVars, keyVars, cliVars>>

CacheClear ==
    /\ cache_db' = cache_clear(cache_db)
    /\ stored' = EmptyDb
    /\ cache_op' = CacheOp("clear", << >>, {}, 0)
    /\ UNCHANGED <<ttl_hours, api_calls>>
    /\ UNCHANGED <<scanVars, walkVars, statsVars, prVars, urlVars, batchVars, splitVars, keyVars, cliVars>>

CacheCleanupExpired ==
    /\ cache_db' = cleanup_expired(cache_db).db
    /\ cache_op' = CacheOp("cleanup_expired", << >>, {}, cleanup_expired(cache_db).removed)
    /\ UNCHANGED <<ttl_hours, stored, api_calls>>
    /\ UNCHANGED <<scanVars, walkVars, statsVars, prVars, urlVars, batchVars, splitVars, keyVars, cliVars>>

\* an hour passes
CacheHourPasses ==
    /\ now < MaxCacheTime
    /\ now' = now + 1
    /\ UNCHANGED <<repo_valid, odb, author_email, timespan, walk_pc, parsed, analysis, walks>>
    /\ UNCHANGED <<scanVars, statsVars, prVars, urlVars, batchVars, splitVars, keyVars, cacheVars, cliVars>>

NextCache == CacheSet \/ CacheGet \/ CacheClear \/ CacheCleanupExpired \/ CacheHourPasses

SpecCache == InitCache /\ [][NextCache]_vars

----------------------------------------------------------------------------
(* Summaries through the cache: Orchestrator::generate_summary, src/orchestrator.rs *)

\* the repositories summaries are asked for: path, name and commit hashes
SummaryRepos ==
    { [path |-> <<"/","w">>, name |-> "w", hashes |-> << <<"a","1">>, <<"b","2">> >>],
      [path |-> <<"/","a">>, name |-> "a", hashes |-> << <<"1","a">> >>] }

\* what ClaudeClient::generate_summary returns for a prompt: a text or an error
ApiOutcomes ==
    { [tag |-> "ok", text |-> "first text"], [tag |-> "ok", text |-> "second text"],
      ClaudeApiError }

\* Orchestrator::generate_summary_uncached, orchestrator.rs:120-137: one call
\* of the API, its error handed on by `?`
generate_summary_uncached(repo, api) ==
    IF api.tag = "err" THEN api
    ELSE [tag |-> "ok", summary |-> [repository |-> repo.name, work_summary |-> api.text]]

\* generate_summary without the look into the cache
generate_summary_no_lookup(repo, api, db) ==
    LET cache_key == generate_key(repo.path, repo.hashes)
        made      == generate_summary_uncached(repo, api)
    IN  IF made.tag = "err" THEN [result |-> made, db |-> db, api_calls |-> 1]
        ELSE [result |-> made, db |-> cache_set(db, cache_key, made.summary), api_calls |-> 1]

\* Orchestrator::generate_summary with self.cache = Some(cache),
\* orchestrator.rs:87-113: what it returns, the store afterwards and the
\* number of API calls made
generate_summary(repo, api, db) ==
    LET cache_key == generate_key(repo.path, repo.hashes)
        got       == cache_get(db, cache_key)
    IN  IF got.result # {}
        THEN [result |-> [tag |-> "ok", summary |-> CHOOSE c \in got.result : TRUE],
              db |-> got.db, api_calls |-> 0]
        ELSE LET made == generate_summary_uncached(repo, api)
             IN  IF made.tag = "err"
                 THEN [result |-> made, db |-> got.db, api_calls |-> 1]
                 ELSE [result |-> made,
                       db |-> cache_set(got.db, cache_key, made.summary),
                       api_calls |-> 1]

InitSummary ==
    /\ ScanIdle
    /\ WalkIdle
    /\ StatsIdle
    /\ PrIdle
    /\ UrlIdle
    /\ BatchIdle
    /\ SplitIdle
    /\ KeyIdle
    /\ cache_db = EmptyDb
    /\ ttl_hours \in TtlOptions
    /\ stored = EmptyDb
    /\ cache_op = [op |-> "new", key |-> << >>, at |-> 0, result |-> NoResult,
                   before |-> EmptyDb]
    /\ api_calls = 0
    /\ CliIdle

\* one invocation of Orchestrator::generate_summary
GenerateSummary ==
    /\ \E repo \in SummaryRepos, api \in ApiOutcomes :
          LET out == generate_summary(repo, api, cache_db)
          IN  /\ cache_db' = out.db
              /\ api_calls' = out.api_calls
              /\ cache_op' = [op |-> "generate_summary",
                              key |-> generate_key(repo.path, repo.hashes),
                              at |-> now, result |-> out.result, before |-> cache_db]
    /\ UNCHANGED <<ttl_hours, stored>>
    /\ UNCHANGED <<scanVars, walkVars, statsVars, prVars, urlVars, batchVars, splitVars, keyVars, cliVars>>

NextSummary == GenerateSummary \/ CacheHourPasses

SpecSummary == InitSummary /\ [][NextSummary]_vars

----------------------------------------------------------------------------
(* Command line: Cli::validate, src/cli.rs *)

\* is_non_interactive without the dry_run flag
is_non_interactive_no_dry_run(self) ==
    \/ self.non_interactive
    \/ self.output # {}
    \/ self.command # {}

\* Cli::is_non_interactive, cli.rs:94-99
is_non_interactive(self) ==
    \/ self.non_interactive
    \/ self.output # {}
    \/ self.dry_run
    \/ self.command # {}

CliErr(text) == [tag |-> "err", message |-> text]

\* Cli::validate, cli.rs:102-122
validate(self) ==
    IF self.days # {} /\ (self.since # {} \/ self.until # {})
    THEN CliErr("Cannot specify both --days and --since/--until. Choose one.")
    ELSE IF self.authors # {} /\ ~self.team
    THEN CliErr("--authors requires --team flag")
    ELSE IF self.team /\ is_non_interactive(self) /\ self.authors = {}
    THEN CliErr("Team mode in non-interactive mode requires --authors")
    ELSE [tag |-> "ok"]

\* the command lines: every argument validate looks at, given or not
CliArguments ==
    [days : {{}, {30}},
     since : {{}, {"2025-01-01"}},
     until : {{}, {"2025-01-31"}},
     authors : {{}, {<<"alice@example.com">>}},
     team : BOOLEAN,
     non_interactive : BOOLEAN,
     output : {{}, {"recap.md"}},
     dry_run : BOOLEAN,
     command : {{}, {"Config"}}]

InitCli ==
    /\ ScanIdle
    /\ WalkIdle
    /\ StatsIdle
    /\ PrIdle
    /\ UrlIdle
    /\ BatchIdle
    /\ SplitIdle
    /\ KeyIdle
    /\ CacheIdle
    /\ cli \in CliArguments
    /\ cli_pc = "idle"
    /\ cli_out = NoResult

Validate ==
    /\ cli_pc = "idle"
    /\ cli_out' = validate(cli)
    /\ cli_pc' = "done"
    /\ UNCHANGED cli
    /\ UNCHANGED <<scanVars, walkVars, statsVars, prVars, urlVars, batchVars, splitVars, keyVars, cacheVars>>

NextCli == Validate

SpecCli == InitCli /\ [][NextCli]_vars

----------------------------------------------------------------------------
(* Scanner properties *)

Range(s) == { s[i] : i \in 1..Len(s) }

\* a directory name equals or contains an exclusion pattern
NameMatchesExclusion(name) ==
    \E pat \in exclude_patterns :
        \E a, b \in 0..Len(name) :
            a + Len(pat) + b = Len(name) /\ SubSeq(name, a + 1, a + Len(pat)) = pat

IsValidRepo(p) == p \in dirs /\ gitKind[p] = "dir"

IsProperPrefix(a, b) == Len(a) < Len(b) /\ SubSeq(b, 1, Len(a)) = a

\* C1: no returned path has, among the directories entered on the way from
\* the scan root down to it (the path itself included), one whose name
\* equals or contains an exclusion pattern.
C1_NoExcludedSegment ==
    scan_pc = "done" =>
        \A r \in Range(repos) : \A i \in 1..Len(r) : ~NameMatchesExclusion(r[i])

\* C1 happens: a repository is returned from below the root while another
\* valid repository behind an excluded directory is left out.
C1_Witness ==
    /\ scan_pc = "done"
    /\ \E r \in Range(repos) : Len(r) >= 1
    /\ \E d \in dirs :
        /\ IsValidRepo(d)
        /\ \E i \in 1..Len(d) : NameMatchesExclusion(d[i]) /\ ~(d[i] \in exclude_patterns)
        /\ d \notin Range(repos)

\* C2: with max_depth = Some(m), every returned path has depth <= m
\* (depth = number of segments below the root).
C2_DepthWithinMax ==
    scan_pc = "done" =>
        \A m \in max_depth : \A r \in Range(repos) : Len(r) <= m

\* C2 happens: a limit is set, a repository at the deepest admitted level is
\* returned and a valid, otherwise reachable repository beyond the limit is not.
C2_Witness ==
    /\ scan_pc = "done"
    /\ \E m \in max_depth :
        /\ \E r \in Range(repos) : Len(r) + 1 = m
        /\ \E d \in dirs :
            /\ IsValidRepo(d) /\ Len(d) > m /\ d \notin Range(repos)
            /\ \A i \in 1..Len(d) : ~NameMatchesExclusion(d[i]) /\ d[i][1] # "."

\* the depth does not exceed the configured maximum
WithinDepthLimit(d) == \A m \in max_depth : d <= m

\* C3: when a returned repository A has a valid repository B below it, every
\* directory from below A down to B is neither hidden nor excluded, the
\* directories from A down to B's parent can be read, and B lies within the
\* depth limit, B is returned as well.
C3_NestedRepositoriesFound ==
    scan_pc = "done" =>
        \A a \in Range(repos) : \A b \in dirs :
            ( /\ IsValidRepo(b)
              /\ IsProperPrefix(a, b)
              /\ \A i \in (Len(a) + 1)..Len(b) :
                    ~NameMatchesExclusion(b[i]) /\ b[i][1] # "."
              /\ \A i \in Len(a)..(Len(b) - 1) : SubSeq(b, 1, i) \notin unreadable
              /\ WithinDepthLimit(Len(b)) )
            => b \in Range(repos)

\* every directory from the root down to p, p included, is neither excluded
\* nor hidden, and those above p can be read
PlainlyReachable(p) ==
    /\ \A i \in 1..Len(p) : ~NameMatchesExclusion(p[i]) /\ p[i][1] # "."
    /\ \A i \in 0..(Len(p) - 1) : SubSeq(p, 1, i) \notin unreadable

\* C13: with max_depth = Some(m), the root is returned when it is a valid
\* repository, whatever m is, and so is every valid repository at a depth
\* d <= m that is reached through directories that are neither excluded nor
\* hidden.
C13_LimitStopsDescentOnly ==
    scan_pc = "done" =>
        /\ IsValidRepo(<< >>) => << >> \in Range(repos)
        /\ \A d \in dirs :
              (IsValidRepo(d) /\ WithinDepthLimit(Len(d)) /\ PlainlyReachable(d))
                  => d \in Range(repos)

\* scan_recursive's depth test lets a directory at this depth be tested
DepthAdmits(d) == \A m \in max_depth : d < m

\* the directories above p are neither excluded nor hidden and can be read,
\* and the depth test admits p
ReachedFromAbove(p) ==
    /\ \A i \in 1..(Len(p) - 1) : ~NameMatchesExclusion(p[i]) /\ p[i][1] # "."
    /\ \A i \in 0..(Len(p) - 1) : SubSeq(p, 1, i) \notin unreadable
    /\ DepthAdmits(Len(p))

\* C14: a directory below the root whose own name equals or contains an
\* exclusion pattern, that is reached from above and is a valid repository,
\* is returned, and no directory below it is traversed or returned.
C14_ExcludedRepositoryReturned ==
    scan_pc = "done" =>
        \A d \in dirs :
            ( /\ Len(d) >= 1
              /\ NameMatchesExclusion(LastName(d)) /\ LastName(d)[1] # "."
              /\ ReachedFromAbove(d) )
            => /\ IsValidRepo(d) => d \in Range(repos)
               /\ \A q \in Range(visited) \cup Range(repos) : ~IsProperPrefix(d, q)

\* C15: scan_recursive is never called on a hidden directory or below one,
\* and never on a .git directory or below one, whatever the exclusion patterns.
C15_NoHiddenNoDotGitDescent ==
    scan_pc = "done" =>
        \A p \in Range(visited) : \A i \in 1..Len(p) : p[i][1] # "."

----------------------------------------------------------------------------
(* Walker properties *)

RECURSIVE Ancestors(_)
\* c and every commit c descends from
Ancestors(c) ==
    {c} \cup UNION { Ancestors(odb[c].parents[k]) : k \in 1..Len(odb[c].parents) }

ReachableFromHead == IF odb = << >> THEN {} ELSE Ancestors(HeadOid)

\* the instant recorded for commit c
InstantOf(c) == IF odb[c].time <= ChronoMax THEN odb[c].time ELSE now

Hashes(result) == { result.commits[k].hash : k \in 1..Len(result.commits) }

ContainsIgnoringCase(text, part) ==
    \E a \in 0..Len(text) :
        /\ a + Len(part) <= Len(text)
        /\ \A k \in 1..Len(part) : LowerChar(text[a + k]) = LowerChar(part[k])

\* C4: every returned commit has start <= timestamp <= end, and a reachable
\* commit passing the author filter whose timestamp equals start, or equals
\* end, is returned.
C4_WindowInclusive ==
    (walk_pc = "parsed" /\ parsed.tag = "ok") =>
        /\ \A k \in 1..Len(parsed.commits) :
              /\ timespan.start <= parsed.commits[k].timestamp
              /\ parsed.commits[k].timestamp <= timespan.end
              /\ parsed.commits[k].timestamp = InstantOf(parsed.commits[k].hash)
        /\ \A c \in ReachableFromHead :
              ( /\ InstantOf(c) \in {timespan.start, timespan.end}
                /\ \A f \in author_email : ContainsIgnoringCase(odb[c].email, f) )
              => c \in Hashes(parsed)

\* C4 happens: one walk returns a commit at start and a commit at end and
\* leaves out a reachable commit before start and one after end.
C4_Witness ==
    /\ walk_pc = "parsed" /\ parsed.tag = "ok"
    /\ timespan.start < timespan.end
    /\ \E k \in 1..Len(parsed.commits) : parsed.commits[k].timestamp = timespan.start
    /\ \E k \in 1..Len(parsed.commits) : parsed.commits[k].timestamp = timespan.end
    /\ \E c \in ReachableFromHead \ Hashes(parsed) : InstantOf(c) < timespan.start

\* C5: with an author filter, a commit is returned only if its lower-cased
\* author email contains the lower-cased filter; a reachable commit in the
\* window whose email differs from the filter only in letter case is
\* returned; without a filter no commit is rejected on account of its author
\* (every reachable commit in the window is returned).
C5_AuthorFilter ==
    (walk_pc = "parsed" /\ parsed.tag = "ok") =>
        /\ \A f \in author_email : \A k \in 1..Len(parsed.commits) :
              ContainsIgnoringCase(parsed.commits[k].email, f)
        /\ \A f \in author_email : \A c \in ReachableFromHead :
              ( /\ InstantOf(c) \in timespan.start..timespan.end
                /\ Len(f) = Len(odb[c].email)
                /\ \A k \in 1..Len(f) : LowerChar(f[k]) = LowerChar(odb[c].email[k]) )
              => c \in Hashes(parsed)
        /\ author_email = {} =>
              \A c \in ReachableFromHead :
                  InstantOf(c) \in timespan.start..timespan.end => c \in Hashes(parsed)

\* C5 happens: a filter that differs from the author's email in letter case
\* returns that author's commit and rejects another author's commit that is
\* reachable and in the window.
C5_Witness ==
    /\ walk_pc = "parsed" /\ parsed.tag = "ok"
    /\ \E f \in author_email :
        /\ \E k \in 1..Len(parsed.commits) : ~StrContains(parsed.commits[k].email, f)
        /\ \E c \in ReachableFromHead \ Hashes(parsed) :
              InstantOf(c) \in timespan.start..timespan.end

\* the number a u32 in limb form stands for
NatOf(u) == u[1] * Limb + u[2]

\* the number of lines in all files of a tree
TotalLines(tree) == SumOver([k \in 1..Len(FileOrder) |-> Len(LinesOf(tree, FileOrder[k]))], 1)

\* the paths that are in one tree only or differ in content
DifferingPaths(old, new) ==
    { f \in Range(FileOrder) : (f \in DOMAIN old) # (f \in DOMAIN new) \/ LinesOf(old, f) # LinesOf(new, f) }

\* the lines of the paths that new has and old has not
LinesOfAddedPaths(old, new) ==
    SumOver([k \in 1..Len(FileOrder) |->
               IF FileOrder[k] \in DOMAIN new /\ FileOrder[k] \notin DOMAIN old
               THEN Len(new[FileOrder[k]]) ELSE 0], 1)

\* C11: a returned commit without parents has every line of its tree as an
\* insertion, no deletion and every path of its tree as a changed file; a
\* returned commit with parents has the statistics of the change from its
\* first parent's tree to its own (the sizes of the two trees differ by
\* insertions - deletions, equal trees give no change, the changed files are
\* the paths that differ, added and removed paths count in full), and two
\* commits with the same tree and the same first parent have the same
\* statistics whatever their later parents.
C11_DiffAgainstFirstParent ==
    (walk_pc = "parsed" /\ parsed.tag = "ok") =>
        \A k \in 1..Len(parsed.commits) :
            LET c == parsed.commits[k]
                o == odb[c.hash]
            IN  /\ o.parents = << >> =>
                      /\ c.insertions = U32(TotalLines(o.tree))
                      /\ c.deletions = U32(0)
                      /\ Range(c.files_changed) = DOMAIN o.tree
                /\ o.parents # << >> =>
                      LET base == odb[o.parents[1]].tree IN
                      /\ NatOf(c.insertions) + TotalLines(base)
                            = NatOf(c.deletions) + TotalLines(o.tree)
                      /\ Range(c.files_changed) = DifferingPaths(base, o.tree)
                      /\ base = o.tree => c.insertions = U32(0) /\ c.deletions = U32(0)
                      /\ NatOf(c.insertions) >= LinesOfAddedPaths(base, o.tree)
                      /\ NatOf(c.deletions) >= LinesOfAddedPaths(o.tree, base)
                /\ \A j \in 1..Len(parsed.commits) :
                      LET d == parsed.commits[j]
                          q == odb[d.hash]
                      IN  ( /\ o.parents # << >> /\ q.parents # << >>
                            /\ o.parents[1] = q.parents[1]
                            /\ o.tree = q.tree )
                          => /\ c.insertions = d.insertions
                             /\ c.deletions = d.deletions
                             /\ c.files_changed = d.files_changed

\* C11 happens: a commit without parents holding two lines is returned, and
\* so are a one-parent commit and a merge commit with that same first parent
\* and the same tree, where the merge's second parent has another tree than
\* its first and the change from the first parent adds and removes lines.
C11_Witness ==
    /\ walk_pc = "parsed" /\ parsed.tag = "ok"
    /\ \E k \in 1..Len(parsed.commits) :
          /\ odb[parsed.commits[k].hash].parents = << >>
          /\ parsed.commits[k].insertions = U32(2)
    /\ \E k, j \in 1..Len(parsed.commits) :
          LET o == odb[parsed.commits[k].hash]
              q == odb[parsed.commits[j].hash]
          IN  /\ Len(o.parents) = 2 /\ Len(q.parents) = 1
              /\ o.parents[1] = q.parents[1] /\ o.tree = q.tree
              /\ odb[o.parents[2]].tree # odb[o.parents[1]].tree
              /\ NatOf(parsed.commits[k].insertions) > 0
              /\ NatOf(parsed.commits[k].deletions) > 0

PassesFilter(c) ==
    /\ InstantOf(c) >= timespan.start
    /\ InstantOf(c) <= timespan.end
    /\ \A f \in author_email : ContainsIgnoringCase(odb[c].email, f)

\* C29: the returned list holds exactly once every commit reachable from HEAD
\* that is in the window and passes the author filter, and nothing else (no
\* commit that is not reachable from HEAD); a rejected commit does not keep
\* older commits that pass from being returned.
C29_FilterCompleteAndExact ==
    (walk_pc = "parsed" /\ parsed.tag = "ok") =>
        /\ Hashes(parsed) = { c \in ReachableFromHead : PassesFilter(c) }
        /\ \A i, j \in 1..Len(parsed.commits) :
              parsed.commits[i].hash = parsed.commits[j].hash => i = j

\* HEAD is rejected by the filter and its parent, an older commit, is
\* returned, while a commit that would pass but is not reachable from HEAD is
\* left out
C29_Witness ==
    /\ walk_pc = "parsed" /\ parsed.tag = "ok"
    /\ ~PassesFilter(HeadOid)
    /\ \E c \in Hashes(parsed) :
          /\ c \in Range(odb[HeadOid].parents)
          /\ odb[c].time < odb[HeadOid].time
    /\ \E u \in (1..Len(odb)) \ ReachableFromHead : PassesFilter(u)

\* the hash values of a returned commit list, in order
HashList(result) == [k \in 1..Len(result.commits) |-> result.commits[k].hash]

\* C23: two calls of parse_commits on the same unmodified repository with the
\* same author filter and the same time window return the same commits, with
\* the same hash values in the same order and the same timestamps.
C23_RewalkStable ==
    Len(walks) = 2 =>
        /\ walks[1].tag = walks[2].tag
        /\ walks[1].tag = "ok" =>
              /\ HashList(walks[1]) = HashList(walks[2])
              /\ walks[1].commits = walks[2].commits

----------------------------------------------------------------------------
(* Repository assembly properties *)

\* the reachable commits that are in the window and pass the author filter
Selected ==
    { c \in ReachableFromHead :
        /\ timespan.start <= InstantOf(c) /\ InstantOf(c) <= timespan.end
        /\ \A f \in author_email : ContainsIgnoringCase(odb[c].email, f) }

\* the repository opens and the walk, with its diffs, goes through
OpensAndWalks ==
    /\ repo_valid
    /\ odb # << >>
    /\ \A c \in Selected :
          odb[c].tree_ok /\ \A k \in 1..Len(odb[c].parents) : k = 1 => odb[odb[c].parents[k]].tree_ok

IsNoCommitsFound(r) == r.tag = "err" /\ r.kind = "NoCommitsFound"

\* C8: analyze_repository returns NoCommitsFound exactly when the repository
\* opens and walks successfully and the filtered commit list is empty; a path
\* that is not an openable repository gives the Git error, never
\* NoCommitsFound; Ok never carries an empty commit list.
C8_NoCommitsFound ==
    walk_pc = "analyzed" =>
        /\ IsNoCommitsFound(analysis) <=> (OpensAndWalks /\ Selected = {})
        /\ ~repo_valid => analysis = GitError
        /\ analysis.tag = "ok" => Len(analysis.commits) > 0

\* C8 happens: a repository whose reachable commits all lie outside the
\* window is analysed and NoCommitsFound comes back.
C8_Witness ==
    /\ walk_pc = "analyzed"
    /\ IsNoCommitsFound(analysis)
    /\ author_email = {}
    /\ ReachableFromHead # {}
    /\ \A c \in ReachableFromHead : InstantOf(c) < timespan.start

----------------------------------------------------------------------------
(* Reference extraction properties *)

\* the digit runs that follow an occurrence of one of the four literals
CapturedRuns(msg) ==
    { SubSeq(msg, d, DigitRunEnd(msg, d)) :
        d \in { j \in 2..Len(msg) :
                  /\ IsRegexDigit(msg[j])
                  /\ \E p \in 1..Len(PrPatterns) :
                        /\ j - Len(PrPatterns[p]) >= 1
                        /\ SubSeq(msg, j - Len(PrPatterns[p]), j - 1) = PrPatterns[p] } }

StrictlyAscending(v) == \A k \in 1..(Len(v) - 1) : U32Less(v[k], v[k + 1])

\* C6 as stated: the result is strictly ascending and holds exactly the
\* numbers captured by one of the four patterns.
C6_AllCapturedNumbers ==
    pr_pc = "done" =>
        /\ StrictlyAscending(pr_numbers)
        /\ Range(pr_numbers) = { DecimalValue(r) : r \in CapturedRuns(message) }

\* the captured runs that str::parse::<u32> accepts
U32Runs(msg) ==
    { r \in CapturedRuns(msg) :
        (\A k \in 1..Len(r) : IsAsciiDigit(r[k])) /\ FitsU32(DecimalValue(r)) }

\* C6 amended: the result is strictly ascending and holds exactly the
\* captured numbers that are written in ASCII digits and are at most
\* 4294967295; each appears once.
C6_CapturedU32Numbers ==
    pr_pc = "done" =>
        /\ StrictlyAscending(pr_numbers)
        /\ Range(pr_numbers) = { DecimalValue(r) : r \in U32Runs(message) }

\* C6 happens: two different numbers are captured by different patterns,
\* the larger one first in the message, and come back in ascending order.
C6_Witness ==
    /\ pr_pc = "done"
    /\ Len(pr_numbers) = 2
    /\ \E d1, d2 \in 2..Len(message) :
        /\ d1 < d2
        /\ SubSeq(message, d1 - 1, d1 - 1) = P_hash
        /\ d2 > 3 /\ SubSeq(message, d2 - 3, d2 - 1) = P_gh
        /\ IsRegexDigit(message[d1]) /\ IsRegexDigit(message[d2])
        /\ pr_numbers[2] = DecimalValue(SubSeq(message, d1, DigitRunEnd(message, d1)))
        /\ pr_numbers[1] = DecimalValue(SubSeq(message, d2, DigitRunEnd(message, d2)))

----------------------------------------------------------------------------
(* Remote URL properties *)

\* the URL is <head><owner>/<repo>[.git] and nothing else
IsPlainForm(parts, head) ==
    /\ parts[1] = << >>
    /\ parts[2] = head
    /\ parts[3] # << >>
    /\ parts[4] = <<"/">>
    /\ parts[5] # << >>
    /\ parts[6] \in {<< >>, DotGitSuffix}

\* the URL names a host other than github.com
IsOtherHost(parts) ==
    \/ parts[1] = << >> /\ parts[2] = L_gitlab
    \/ parts[1] = L_redirect

\* C7: each of https://github.com/<owner>/<repo>[.git],
\* git@github.com:<owner>/<repo>[.git] and git://github.com/<owner>/<repo>[.git]
\* gives the identifier {owner, repo}, and a URL on another host gives none.
C7_ThreeFormsOneIdentifier ==
    url_pc = "done" =>
        /\ \A f \in 1..Len(UrlForms) :
              IsPlainForm(url_parts, UrlForms[f]) =>
                  github_info = { [owner |-> url_parts[3], repo |-> url_parts[5]] }
        /\ IsOtherHost(url_parts) => github_info = {}

\* C21: for a recognised URL whose repository segment is <name> or <name>.git,
\* names with dots included, the repository name returned is <name> in full.
C21_RepositoryNameInFull ==
    url_pc = "done" =>
        \A f \in 1..Len(UrlForms) :
            IsPlainForm(url_parts, UrlForms[f]) =>
                \A g \in github_info : g.repo = url_parts[5]

\* the URL is one of the three forms on github.com with an owner and a
\* repository segment, whatever whitespace surrounds it and whatever follows
\* the repository name
IsWellFormed(parts) ==
    /\ parts[1] \in {<< >>, <<" ">>}
    /\ \E f \in 1..Len(UrlForms) : parts[2] = UrlForms[f]
    /\ parts[3] # << >>
    /\ parts[4] = <<"/">>
    /\ parts[5] # << >>

\* C22: parse_github_url returns no identifier for every input that is not a
\* well-formed URL of a recognised form on github.com: the empty string, text
\* that is no URL, and a github.com URL inside a longer string or inside a URL
\* of another host.
C22_NoIdentifierOtherwise ==
    url_pc = "done" => (~IsWellFormed(url_parts) => github_info = {})

----------------------------------------------------------------------------
(* Summary and body properties *)

\* position of the first newline of s, Len(s) + 1 when it has none
FirstNewline(s) ==
    IF \E i \in 1..Len(s) : s[i] = NewLine
    THEN CHOOSE i \in 1..Len(s) : s[i] = NewLine /\ \A j \in 1..(i - 1) : s[j] # NewLine
    ELSE Len(s) + 1

FirstLine(s) == SubSeq(s, 1, FirstNewline(s) - 1)

\* everything after the first line's terminator
AfterFirstLine(s) == SubSeq(s, FirstNewline(s) + 1, Len(s))

AllBlank(s) == \A i \in 1..Len(s) : IsWhitespace(s[i])

\* s from the start of its first line that is not blank
FromFirstNonBlankLine(s) ==
    LET k     == CHOOSE i \in 1..Len(s) :
                    ~IsWhitespace(s[i]) /\ \A j \in 1..(i - 1) : IsWhitespace(s[j])
        start == IF \E j \in 1..(k - 1) : s[j] = NewLine
                 THEN 1 + CHOOSE j \in 1..(k - 1) :
                            s[j] = NewLine /\ \A h \in (j + 1)..(k - 1) : s[h] # NewLine
                 ELSE 1
    IN  SubSeq(s, start, Len(s))

\* line terminators "\r\n" read as "\n"
RECURSIVE CrlfToLf(_)
CrlfToLf(s) ==
    IF s = << >> THEN << >>
    ELSE IF Len(s) >= 2 /\ s[1] = CarriageReturn /\ s[2] = NewLine
         THEN <<NewLine>> \o CrlfToLf(SubSeq(s, 3, Len(s)))
         ELSE <<Head(s)>> \o CrlfToLf(Tail(s))

WithoutFinalNewline(s) ==
    IF s # << >> /\ s[Len(s)] = NewLine THEN SubSeq(s, 1, Len(s) - 1) ELSE s

\* C18: the summary is the first line of the message with the surrounding
\* whitespace trimmed; the body is the remaining lines from the first one that
\* is not blank, joined with newlines; there is no body when the message has a
\* single line or every remaining line is blank
C18_SummaryAndBody ==
    split_pc = "done" =>
        LET rest == AfterFirstLine(message)
        IN  /\ split_out.summary = Trim(FirstLine(message))
            /\ (split_out.body = {}) <=> AllBlank(rest)
            /\ ~AllBlank(rest) =>
                   split_out.body =
                       {WithoutFinalNewline(CrlfToLf(FromFirstNonBlankLine(rest)))}

\* a first line with whitespace around it, then a blank line, then two lines of
\* text that make the body
C18_Witness ==
    /\ split_pc = "done"
    /\ split_out.summary # FirstLine(message)
    /\ split_out.summary # << >>
    /\ AfterFirstLine(message) # << >>
    /\ AfterFirstLine(message)[1] = NewLine
    /\ \E b \in split_out.body :
          \E i \in 2..(Len(b) - 1) : b[i] = NewLine /\ b[i - 1] = "s" /\ b[i + 1] = "s"

----------------------------------------------------------------------------
(* Cache key properties *)

\* C25: the key is a function of the repository path and the set of commit
\* hashes: two calls with the same path and the same hashes give the same
\* key, also when the hashes are supplied in a different order.
C25_KeyOfPathAndHashSet ==
    \A i, j \in 1..Len(key_calls) :
        (/\ key_calls[i].repo_path = key_calls[j].repo_path
         /\ Range(key_calls[i].commit_hashes) = Range(key_calls[j].commit_hashes))
        => key_calls[i].key = key_calls[j].key

----------------------------------------------------------------------------
(* Summary cache properties *)

\* C27: after any sequence of set, get, clear and cleanup_expired, get(k)
\* returns the summary last stored by set(k) when its age is at most the TTL
\* and no clear followed; on an entry older than the TTL it returns nothing
\* and the entry is gone; on a key never stored (or cleared since) it returns
\* nothing; and clear leaves no entry.
C27_CacheLifecycle ==
    /\ cache_op.op = "get" =>
          IF cache_op.key \in DOMAIN stored
          THEN IF cache_op.at - stored[cache_op.key].at <= ttl_hours
               THEN cache_op.result = {stored[cache_op.key].summary}
               ELSE /\ cache_op.result = {}
                    /\ cache_op.key \notin DOMAIN cache_db
          ELSE cache_op.result = {}
    /\ cache_op.op = "clear" => Cardinality(DOMAIN cache_db) = 0

\* a get has just found the entry of its key older than the TTL and removed
\* it, while the entry of another key, stored later, is still there
C27_Witness ==
    /\ cache_op.op = "get"
    /\ cache_op.key \in DOMAIN stored
    /\ cache_op.at - stored[cache_op.key].at > ttl_hours
    /\ cache_op.result = {}
    /\ cache_op.key \notin DOMAIN cache_db
    /\ \E k \in DOMAIN cache_db :
          /\ cache_op.at - stored[k].at = ttl_hours
          /\ ttl_hours > 0

\* the invocation found an entry under its key whose age was at most the TTL
UnexpiredHit ==
    /\ cache_op.key \in DOMAIN cache_op.before
    /\ cache_op.at - from_slice(cache_op.before[cache_op.key]).cached_at <= ttl_hours

\* the store as it was before the invocation, without the entry of its key
BeforeWithoutKey == DbRemove(cache_op.before, cache_op.key)

\* C28: an invocation of generate_summary with the cache enabled makes at most
\* one API call; on an unexpired hit it returns the cached summary, makes no
\* API call and leaves the cache as it was; on a miss it makes exactly one API
\* call and, when that succeeds, the summary it returns is stored under the
\* key; when the API call fails the error is returned and no entry is written.
C28_OneCallPerInvocation ==
    cache_op.op = "generate_summary" =>
        /\ api_calls <= 1
        /\ IF UnexpiredHit
           THEN /\ api_calls = 0
                /\ cache_op.result =
                      [tag |-> "ok", summary |-> from_slice(cache_op.before[cache_op.key]).summary]
                /\ cache_db = cache_op.before
           ELSE /\ api_calls = 1
                /\ IF cache_op.result.tag = "ok"
                   THEN /\ cache_op.key \in DOMAIN cache_db
                        /\ from_slice(cache_db[cache_op.key]) =
                              [summary |-> cache_op.result.summary, cached_at |-> cache_op.at]
                        /\ DbRemove(cache_db, cache_op.key) = BeforeWithoutKey
                   ELSE /\ cache_op.result = ClaudeApiError
                        /\ cache_db = BeforeWithoutKey

\* an invocation has just returned, without an API call, the summary that an
\* invocation of an earlier hour stored; it is the only entry of the cache
C28_Witness ==
    /\ cache_op.op = "generate_summary"
    /\ UnexpiredHit
    /\ api_calls = 0
    /\ cache_op.result.tag = "ok"
    /\ cache_op.at > from_slice(cache_op.before[cache_op.key]).cached_at
    /\ Cardinality(DOMAIN cache_db) = 1

----------------------------------------------------------------------------
(* Command line properties *)

Given(option) == option # {}

DaysWithDates == Given(cli.days) /\ (Given(cli.since) \/ Given(cli.until))

AuthorsWithoutTeam == Given(cli.authors) /\ ~cli.team

TeamWithoutAuthorsNonInteractive ==
    /\ cli.team
    /\ ~Given(cli.authors)
    /\ (cli.non_interactive \/ Given(cli.output) \/ cli.dry_run \/ Given(cli.command))

\* C30: validate returns an error exactly when --days comes with --since or
\* --until, or --authors comes without --team, or --team comes in
\* non-interactive mode (non_interactive, output, dry_run or a subcommand)
\* without --authors; for every other command line it returns Ok.
C30_ValidateErrorsExactly ==
    cli_pc = "done" =>
        IF DaysWithDates \/ AuthorsWithoutTeam \/ TeamWithoutAuthorsNonInteractive
        THEN cli_out.tag = "err"
        ELSE cli_out = [tag |-> "ok"]

\* validate has refused --team with --dry-run alone: no authors, no other
\* flag of the non-interactive mode, no dates
C30_Witness ==
    /\ cli_pc = "done"
    /\ cli_out.tag = "err"
    /\ cli.team /\ cli.dry_run
    /\ ~cli.non_interactive /\ ~Given(cli.output) /\ ~Given(cli.command)
    /\ ~Given(cli.authors) /\ ~Given(cli.days)

----------------------------------------------------------------------------
(* Statistics properties *)

RECURSIVE NatSum(_)
\* the exact sum of a list of naturals in limb form
NatSum(vals) ==
    IF vals = << >> THEN U32(0) ELSE NatAdd(Head(vals), NatSum(Tail(vals)))

\* C10: from_commits yields total_commits = number of commits,
\* total_files_changed = sum of the files_changed lengths, total_insertions
\* and total_deletions = the sums of the commits' insertions and deletions.
C10_TotalsAreSums ==
    stats_pc = "done" =>
        /\ stats_out.tag = "ok"
        /\ stats_out.total_commits = U32(Len(stat_commits))
        /\ stats_out.total_files_changed = NatSum([i \in 1..Len(stat_commits) |-> U32(Len(stat_commits[i].files_changed))])
        /\ stats_out.total_insertions = NatSum([i \in 1..Len(stat_commits) |-> stat_commits[i].insertions])
        /\ stats_out.total_deletions = NatSum([i \in 1..Len(stat_commits) |-> stat_commits[i].deletions])

\* the exact sums of the insertions and of the deletions of a list
InsertionsSum(commits) == NatSum([i \in 1..Len(commits) |-> commits[i].insertions])
DeletionsSum(commits) == NatSum([i \in 1..Len(commits) |-> commits[i].deletions])

\* C24: from_commits has no failure mode: it does not panic, and when a sum
\* exceeds the 32-bit unsigned range the total it returns is still the true
\* sum, not the sum modulo 2^32.
C24_NoFailureMode ==
    stats_pc = "done" =>
        /\ stats_out.tag # "panic"
        /\ ~FitsU32(InsertionsSum(stat_commits)) =>
               stats_out.total_insertions = InsertionsSum(stat_commits)
        /\ ~FitsU32(DeletionsSum(stat_commits)) =>
               stats_out.total_deletions = DeletionsSum(stat_commits)

\* the reference numbers of all the commits of a list
ReferencedNumbers(commits) ==
    UNION { Range(commits[i].pr_numbers) : i \in 1..Len(commits) }

\* C19: for every commit list from_commits sets pr_count to the number of
\* distinct reference numbers in the union of the commits' pr_numbers.
C19_PrCountDistinct ==
    stats_pc = "done" =>
        /\ stats_out.tag = "ok"
        /\ stats_out.pr_count = Cardinality(ReferencedNumbers(stat_commits))

\* the calendar days of the commits of a list
DatesOf(commits) == { DateOf(commits[i].timestamp) : i \in 1..Len(commits) }

CommitsOn(commits, d) == { i \in 1..Len(commits) : DateOf(commits[i].timestamp) = d }

RECURSIVE SumOfValues(_, _)
SumOfValues(map, keys) ==
    IF keys = {} THEN 0
    ELSE LET k == CHOOSE x \in keys : TRUE
         IN  map[k] + SumOfValues(map, keys \ {k})

\* C20: for every commit list the commit_frequency map of from_commits has
\* exactly the calendar days of the commits as its keys, maps each day to the
\* number of commits on it, its values sum to total_commits, and it is the
\* map calculate_commit_frequency builds from the same list.
C20_FrequencyByDate ==
    stats_pc = "done" =>
        /\ stats_out.tag = "ok"
        /\ DOMAIN stats_out.commit_frequency = DatesOf(stat_commits)
        /\ \A d \in DatesOf(stat_commits) :
              stats_out.commit_frequency[d] = Cardinality(CommitsOn(stat_commits, d))
        /\ SumOfValues(stats_out.commit_frequency, DOMAIN stats_out.commit_frequency)
              = NatOf(stats_out.total_commits)
        /\ stats_out.commit_frequency = calculate_commit_frequency(stat_commits)

----------------------------------------------------------------------------
(* Properties of a run over several repositories *)

\* the analysis of the path at position i fails with an error
AnalysisFails(i) ==
    \/ batch_env[i].parsed.tag = "err"
    \/ batch_env[i].parsed.commits = << >>

\* C12: a run over a list of paths never stops before its collection is
\* complete, and the complete collection has one entry per input path, in
\* input order, each with its own path, an error entry with the placeholder
\* repository for each failed analysis; the entries built so far always are
\* those of the paths before the current one.
C12_OneEntryPerPath ==
    /\ batch_pc # "panicked"
    /\ batch_pc = "loop" => Len(results) = batch_i - 1
    /\ batch_pc = "done" =>
          /\ Len(results) = Len(repo_paths)
          /\ \A i \in 1..Len(repo_paths) :
                /\ results[i].repo.path = repo_paths[i]
                /\ AnalysisFails(i) <=>
                      (results[i].summary.tag = "err" /\ results[i].repo.commits = << >>)
                /\ AnalysisFails(i) => results[i].summary.kind \in {"Git", "NoCommitsFound"}

\* C26: every Repository record of the collection, the one of a successful
\* analysis and the placeholder of a failed one, has stats =
\* RepoStats::from_commits(commits).
C26_StatsOfOwnCommits ==
    \A k \in 1..Len(results) :
        results[k].repo.stats = from_commits(results[k].repo.commits, overflow_checks)

\* the run has returned a collection that holds the placeholder of a failed
\* analysis and the record of a successful one with its commits
C26_Witness ==
    /\ batch_pc = "done"
    /\ \E k \in 1..Len(results) :
          /\ results[k].summary.tag = "err"
          /\ results[k].repo = MinimalRepository(repo_paths[k])
          /\ batch_env[k].parsed.tag = "err"
    /\ \E k \in 1..Len(results) :
          /\ results[k].repo.commits # << >>
          /\ results[k].repo.stats.total_commits = U32(Len(results[k].repo.commits))

====
